---------------------------- MODULE StateModelProofs ----------------------------
(***************************************************************************)
(* What the state model promises, proved for every number of threads,        *)
(* breakpoints, frames, variables, listeners and modules.                    *)
(*                                                                           *)
(* The numbers of breakpoints rest on those in the list being distinct and   *)
(* below the next one; the hits on what the entries count, with what a kept  *)
(* copy would write back.  The listeners and the variables rest on a thread, *)
(* or a scope, having one list in its chain; the modules on the count being  *)
(* the length of a list without repetitions.                                 *)
(***************************************************************************)
EXTENDS StateModel, StateData, SequenceTheorems, FiniteSetTheorems, WellFoundedInduction, TLAPS

-----------------------------------------------------------------------------
(* The head of a list and its entries.                                      *)

\* A new entry goes in front of the others.
LEMMA InFront ==
    ASSUME NEW S, NEW s \in Seq(S), NEW e \in S, NEW t, t = <<e>> \o s
    PROVE  /\ t \in Seq(S) /\ Len(t) = Len(s) + 1 /\ Len(s) \in Nat
           /\ DOMAIN s = 1 .. Len(s) /\ DOMAIN t = 1 .. (Len(s) + 1)
           /\ t[1] = e /\ \A i \in 1 .. Len(s) : t[i + 1] = s[i]
<1>1. <<e>> \in Seq(S) /\ Len(<<e>>) = 1 /\ <<e>>[1] = e
      OBVIOUS
<1>2. Len(s) \in Nat
      BY LenProperties
<1>3. /\ t \in Seq(S) /\ Len(t) = 1 + Len(s)
      /\ \A i \in 1 .. (1 + Len(s)) : t[i] = IF i <= 1 THEN <<e>>[i] ELSE s[i - 1]
      BY <1>1, ConcatProperties
<1>4. t[1] = e /\ \A i \in 1 .. Len(s) : t[i + 1] = s[i]
      BY <1>1, <1>2, <1>3
<1> QED
    BY <1>2, <1>3, <1>4, LenProperties

\* Taking an entry out moves those behind it up by one.
LEMMA TakenOut ==
    ASSUME NEW S, NEW s \in Seq(S), NEW i \in DOMAIN s, NEW t, t = RemoveAt(s, i)
    PROVE  /\ t \in Seq(S) /\ Len(t) = Len(s) - 1 /\ Len(s) \in Nat \ {0} /\ i \in 1 .. Len(s)
           /\ DOMAIN s = 1 .. Len(s) /\ DOMAIN t = 1 .. (Len(s) - 1)
           /\ \A k \in DOMAIN t : t[k] = IF k < i THEN s[k] ELSE s[k + 1]
<1> DEFINE front == SubSeq(s, 1, i - 1)
           back == SubSeq(s, i + 1, Len(s))
<1>1. Len(s) \in Nat /\ DOMAIN s = 1 .. Len(s) /\ i \in 1 .. Len(s)
      /\ \A k \in 1 .. Len(s) : s[k] \in S
      BY LenProperties, ElementOfSeq
<1>2. /\ front \in Seq(S) /\ Len(front) = i - 1
      /\ \A k \in 1 .. (i - 1) : front[k] = s[k]
      BY <1>1, SubSeqProperties
<1>3. /\ back \in Seq(S) /\ Len(back) = Len(s) - i
      /\ \A k \in 1 .. (Len(s) - i) : back[k] = s[i + k]
      BY <1>1, SubSeqProperties
<1>4. t = front \o back
      BY DEF RemoveAt
<1> HIDE DEF front, back
<1>5. /\ front \o back \in Seq(S) /\ Len(front \o back) = Len(front) + Len(back)
      /\ \A k \in 1 .. (Len(front) + Len(back)) :
            (front \o back)[k] = IF k <= Len(front) THEN front[k] ELSE back[k - Len(front)]
      BY <1>2, <1>3, ConcatProperties
<1>6. Len(front) + Len(back) = Len(s) - 1
      BY <1>1, <1>2, <1>3
<1>7. t \in Seq(S) /\ Len(t) = Len(s) - 1 /\ DOMAIN t = 1 .. (Len(s) - 1)
      BY <1>4, <1>5, <1>6, LenProperties
<1>8. ASSUME NEW k \in 1 .. (Len(s) - 1)
      PROVE  t[k] = IF k < i THEN s[k] ELSE s[k + 1]
  <2>1. t[k] = IF k <= i - 1 THEN front[k] ELSE back[k - (i - 1)]
        BY <1>2, <1>4, <1>5, <1>6
  <2>2. CASE k < i
        BY <1>1, <1>2, <2>1, <2>2
  <2>3. CASE k >= i
    <3>1. k - (i - 1) \in 1 .. (Len(s) - i) /\ i + (k - (i - 1)) = k + 1 /\ ~(k <= i - 1)
          BY <1>1, <2>3
    <3> QED
        BY <1>1, <1>3, <2>1, <2>3, <3>1
  <2> QED
      BY <1>1, <2>2, <2>3
<1> QED
    BY <1>1, <1>7, <1>8

-----------------------------------------------------------------------------
(* The numbers of the breakpoints.                                          *)

\* Distinct, and below the next one to be given.
Numbered ==
    /\ bps \in Seq(Breakpoints) /\ nextId \in Nat \ {0} /\ held \in Breakpoints
    /\ \A i \in DOMAIN bps : bps[i].id \in Nat /\ bps[i].id < nextId
    /\ \A i, j \in DOMAIN bps : bps[i].id = bps[j].id => i = j

\* A number that comes in is one never given before.
NumbersMove ==
    /\ nextId' >= nextId
    /\ \A id \in IdsOf(bps') \ IdsOf(bps) : nextId <= id /\ id < nextId'

\* What is in the list is a breakpoint.
LEMMA ListTyped ==
    ASSUME Numbered
    PROVE  /\ Len(bps) \in Nat /\ DOMAIN bps = 1 .. Len(bps)
           /\ \A i \in DOMAIN bps : bps[i] \in Breakpoints
<1>1. bps \in Seq(Breakpoints)
      BY DEF Numbered
<1> QED
    BY <1>1, LenProperties, ElementOfSeq

\* A list of distinct numbers has as many as it has entries.
LEMMA DistinctCounted ==
    ASSUME NEW list \in Seq(Breakpoints),
           \A i, j \in DOMAIN list : list[i].id = list[j].id => i = j
    PROVE  Len(list) = Cardinality(IdsOf(list))
<1> DEFINE n == Len(list)
           f == [i \in 1 .. n |-> list[i].id]
<1>1. n \in Nat /\ DOMAIN list = 1 .. n
      BY LenProperties
<1>2. IsFiniteSet(1 .. n) /\ Cardinality(1 .. n) = n
      BY ONLY <1>1, FS_Interval, SMTT(20)
<1>3. f \in Surjection(1 .. n, IdsOf(list))
      BY <1>1 DEF Surjection, IdsOf
<1>4. f \in Injection(1 .. n, IdsOf(list))
      BY <1>1, <1>3 DEF Surjection, Injection, IsInjective
<1> HIDE DEF f
<1> QED
    BY <1>2, <1>3, <1>4, FS_Surjection

\* Steps that leave every entry its number.
LEMMA SameNumbers ==
    ASSUME Numbered, bps' \in Seq(Breakpoints), DOMAIN bps' = DOMAIN bps,
           \A i \in DOMAIN bps : bps'[i].id = bps[i].id,
           nextId' = nextId, held' \in Breakpoints
    PROVE  Numbered' /\ NumbersMove
<1>1. IdsOf(bps') = IdsOf(bps)
      BY DEF IdsOf
<1> QED
    BY <1>1 DEF Numbered, NumbersMove

LEMMA UpdateNumbers ==
    ASSUME Numbered, NEW b \in Breakpoints, Update(b)
    PROVE  Numbered' /\ NumbersMove
<1> DEFINE e(i) == IF bps[i].id = b.id THEN b ELSE bps[i]
<1>1. Len(bps) \in Nat /\ DOMAIN bps = 1 .. Len(bps)
      /\ \A i \in DOMAIN bps : bps[i] \in Breakpoints
      BY ListTyped
<1>2. bps' = [i \in 1 .. Len(bps) |-> e(i)] /\ UNCHANGED <<nextId, held>>
      BY <1>1 DEF Update
<1>3. \A i \in 1 .. Len(bps) : e(i) \in Breakpoints /\ e(i).id = bps[i].id
      BY <1>1
<1> HIDE DEF e
<1>4. bps' \in Seq(Breakpoints)
      BY <1>1, <1>2, <1>3
<1> QED
    BY <1>1, <1>2, <1>3, <1>4, SameNumbers DEF Numbered

LEMMA AddNumbers ==
    ASSUME Numbered, NEW b \in Breakpoints, Add(b)
    PROVE  Numbered' /\ NumbersMove
<1> DEFINE e == [b EXCEPT !.id = nextId]
<1>1. nextId \in Nat /\ e \in Breakpoints /\ e.id = nextId
      BY DEF Numbered, Breakpoints
<1>2. held' = held
      BY DEF Add
<1>3. CASE UNCHANGED <<bps, nextId>>
      BY <1>2, <1>3, SameNumbers DEF Numbered
<1>4. CASE bps' = <<e>> \o bps /\ nextId' = nextId + 1
  <2> HIDE DEF e
  <2>1. /\ bps' \in Seq(Breakpoints) /\ Len(bps) \in Nat
        /\ DOMAIN bps = 1 .. Len(bps) /\ DOMAIN bps' = 1 .. (Len(bps) + 1)
        /\ bps'[1] = e /\ \A i \in 1 .. Len(bps) : bps'[i + 1] = bps[i]
        BY <1>1, <1>4, InFront DEF Numbered
  <2>2. \A k \in DOMAIN bps' : k = 1 \/ \E i \in DOMAIN bps : k = i + 1 /\ bps'[k] = bps[i]
    <3> SUFFICES ASSUME NEW k \in DOMAIN bps', k # 1
                 PROVE  k - 1 \in DOMAIN bps /\ k = (k - 1) + 1 /\ bps'[k] = bps[k - 1]
        OBVIOUS
    <3>1. k - 1 \in 1 .. Len(bps) /\ k = (k - 1) + 1
          BY <2>1
    <3> QED
        BY <2>1, <3>1
  <2>3. \A k \in DOMAIN bps' : bps'[k].id \in Nat /\ bps'[k].id < nextId'
        BY <1>1, <1>4, <2>1, <2>2 DEF Numbered
  <2>4. \A k, m \in DOMAIN bps' : bps'[k].id = bps'[m].id => k = m
    <3> SUFFICES ASSUME NEW k \in DOMAIN bps', NEW m \in DOMAIN bps', bps'[k].id = bps'[m].id
                 PROVE  k = m
        OBVIOUS
    <3>1. \A i \in DOMAIN bps : bps[i].id # e.id
          BY <1>1 DEF Numbered
    <3>2. CASE k = 1 \/ m = 1
          BY <2>1, <2>2, <3>1, <3>2
    <3>3. CASE k # 1 /\ m # 1
      <4>1. PICK i \in DOMAIN bps : k = i + 1 /\ bps'[k] = bps[i]
            BY <2>2, <3>3
      <4>2. PICK j \in DOMAIN bps : m = j + 1 /\ bps'[m] = bps[j]
            BY <2>2, <3>3
      <4>3. i = j
            BY <4>1, <4>2 DEF Numbered
      <4> QED
          BY <4>1, <4>2, <4>3
    <3> QED
        BY <3>2, <3>3
  <2>5. \A id \in IdsOf(bps') : id = nextId \/ id \in IdsOf(bps)
        BY <1>1, <2>1, <2>2 DEF IdsOf
  <2>6. NumbersMove
        BY <1>1, <1>4, <2>5 DEF NumbersMove
  <2> QED
      BY <1>1, <1>2, <1>4, <2>1, <2>3, <2>4, <2>6 DEF Numbered
<1> QED
    BY <1>3, <1>4 DEF Add

LEMMA RemoveNumbers ==
    ASSUME Numbered, NEW id, RemoveBreakpoint(id)
    PROVE  Numbered' /\ NumbersMove
<1>1. PICK i \in DOMAIN bps : bps' = RemoveAt(bps, i)
      BY DEF RemoveBreakpoint
<1>2. UNCHANGED <<nextId, held>>
      BY DEF RemoveBreakpoint
<1>3. /\ bps' \in Seq(Breakpoints) /\ Len(bps) \in Nat \ {0} /\ i \in 1 .. Len(bps)
      /\ DOMAIN bps = 1 .. Len(bps) /\ DOMAIN bps' = 1 .. (Len(bps) - 1)
      /\ \A k \in DOMAIN bps' : bps'[k] = IF k < i THEN bps[k] ELSE bps[k + 1]
      BY <1>1, TakenOut DEF Numbered
<1> DEFINE old(k) == IF k < i THEN k ELSE k + 1
<1>4. /\ \A k \in DOMAIN bps' : old(k) \in DOMAIN bps /\ bps'[k] = bps[old(k)]
      /\ \A k, m \in DOMAIN bps' : old(k) = old(m) => k = m
      BY <1>3
<1> HIDE DEF old
<1>5. IdsOf(bps') \subseteq IdsOf(bps)
      BY <1>4 DEF IdsOf
<1> QED
    BY <1>2, <1>3, <1>4, <1>5 DEF Numbered, NumbersMove

\* The list is emptied.
LEMMA EmptyNumbers ==
    ASSUME Numbered, bps' = <<>>, UNCHANGED <<nextId, held>>
    PROVE  Numbered' /\ NumbersMove
<1>1. bps' \in Seq(Breakpoints) /\ DOMAIN bps' = {}
      OBVIOUS
<1>2. IdsOf(bps') = {}
      BY <1>1 DEF IdsOf
<1> QED
    BY <1>1, <1>2 DEF Numbered, NumbersMove

LEMMA StoppedNumbers ==
    ASSUME Numbered, NEW t, NEW hitIds, Stopped(t, hitIds)
    PROVE  Numbered' /\ NumbersMove
<1> DEFINE hit(i) == \E d \in hitIds : FirstDap(i, d)
           e(i) == IF hit(i) THEN [bps[i] EXCEPT !.hits = @ + 1] ELSE bps[i]
<1>1. Len(bps) \in Nat /\ DOMAIN bps = 1 .. Len(bps)
      /\ \A i \in DOMAIN bps : bps[i] \in Breakpoints
      BY ListTyped
<1>2. bps' = [i \in 1 .. Len(bps) |-> e(i)] /\ UNCHANGED <<nextId, held>>
      BY <1>1 DEF Stopped
<1> HIDE DEF hit
<1>3. \A i \in 1 .. Len(bps) : e(i) \in Breakpoints /\ e(i).id = bps[i].id
      BY <1>1 DEF Breakpoints
<1> HIDE DEF e
<1>4. bps' \in Seq(Breakpoints)
      BY <1>1, <1>2, <1>3
<1> QED
    BY <1>1, <1>2, <1>3, <1>4, SameNumbers DEF Numbered

\* What a response or an event tells is a breakpoint.
LEMMA FreshTyped ==
    ASSUME NEW d \in DapIds \cup {Invalid}, NEW loc \in Locations
    PROVE  /\ Fresh(d, loc) \in Breakpoints
           /\ \A id \in Nat \cup {Invalid} : [Fresh(d, loc) EXCEPT !.id = id] \in Breakpoints
BY DEF Fresh, Breakpoints, Invalid

LEMMA BreakpointSteps ==
    ASSUME Numbered, NEW d \in DapIds \cup {Invalid}, NEW loc \in Locations,
           \/ SetBreakpoint(d, loc)
           \/ SetBreakpointsResponse(d, loc)
           \/ \E reason \in {"new", "changed", "removed"} : BreakpointEvent(d, loc, reason)
    PROVE  Numbered' /\ NumbersMove
<1>1. CASE Add(Fresh(d, loc))
      BY <1>1, FreshTyped, AddNumbers
<1>2. ASSUME NEW i \in DOMAIN bps, Update([Fresh(d, loc) EXCEPT !.id = bps[i].id])
      PROVE  Numbered' /\ NumbersMove
  <2>1. bps[i].id \in Nat
        BY DEF Numbered
  <2>2. [Fresh(d, loc) EXCEPT !.id = bps[i].id] \in Breakpoints
        BY <2>1, FreshTyped
  <2> QED
      BY <1>2, <2>2, UpdateNumbers
<1>3. CASE UNCHANGED <<bps, nextId, held>>
      BY <1>3, SameNumbers DEF Numbered
<1> QED
    BY <1>1, <1>2, <1>3 DEF SetBreakpoint, SetBreakpointsResponse, BreakpointEvent

LEMMA CallerNumbers ==
    ASSUME Numbered, CallerStep
    PROVE  Numbered' /\ NumbersMove
<1>1. ASSUME NEW id \in IdsOf(bps), NEW e \in BOOLEAN, SetBreakpointEnabled(id, e)
      PROVE  Numbered' /\ NumbersMove
  <2>1. PICK i \in DOMAIN bps : Update([bps[i] EXCEPT !.enabled = e])
        BY <1>1 DEF SetBreakpointEnabled
  <2>2. [bps[i] EXCEPT !.enabled = e] \in Breakpoints
        BY ListTyped DEF Breakpoints
  <2> QED
      BY <2>1, <2>2, UpdateNumbers
<1>2. ASSUME NEW id \in IdsOf(bps), GetBreakpoint(id)
      PROVE  Numbered' /\ NumbersMove
      BY <1>2, ListTyped, SameNumbers DEF GetBreakpoint, Numbered
<1>3. ASSUME NEW e \in BOOLEAN, UpdateBreakpoint(e)
      PROVE  Numbered' /\ NumbersMove
  <2>1. [held EXCEPT !.enabled = e] \in Breakpoints
        BY DEF Numbered, Breakpoints
  <2> QED
      BY <1>3, <2>1, UpdateNumbers DEF UpdateBreakpoint
<1>4. CASE ClearBreakpoints \/ Reset
      BY <1>4, EmptyNumbers DEF ClearBreakpoints, Reset
<1>5. ASSUME \/ \E t \in ThreadIds : SelectThread(t)
             \/ \E s \in Execs : SetExecState(s)
             \/ ClearThreads
      PROVE  Numbered' /\ NumbersMove
  <2>1. UNCHANGED <<bps, nextId, held>>
        BY <1>5 DEF SelectThread, SetExecState, ClearThreads
  <2> QED
      BY <2>1, SameNumbers DEF Numbered
<1> QED
    BY <1>1, <1>2, <1>3, <1>4, <1>5, BreakpointSteps, RemoveNumbers DEF CallerStep

LEMMA ThreadStepsApart ==
    ASSUME \/ \E t \in ThreadIds : ThreadStarted(t) \/ ThreadExited(t)
           \/ \E t, u \in ThreadIds : t # u /\ ThreadsResponse(<<t, u>>)
    PROVE  UNCHANGED <<bps, nextId, exec, hits, held>>
<1>1. ASSUME NEW ts, ThreadsResponse(ts) PROVE UNCHANGED <<bps, nextId, exec, hits, held>>
      BY <1>1 DEF ThreadsResponse
<1>2. ASSUME NEW t, ThreadExited(t) PROVE UNCHANGED <<bps, nextId, exec, hits, held>>
      BY <1>2 DEF ThreadExited
<1> QED
    BY <1>1, <1>2 DEF ThreadStarted

LEMMA DebuggerNumbers ==
    ASSUME Numbered, DebuggerStep
    PROVE  Numbered' /\ NumbersMove
<1>1. CASE Continued \/ Ended
  <2>1. UNCHANGED <<bps, nextId, held>>
        BY <1>1 DEF Continued, Ended, SetExecState
  <2> QED
      BY <2>1, SameNumbers DEF Numbered
<1>2. CASE UNCHANGED <<bps, nextId, exec, hits, held>>
      BY <1>2, SameNumbers DEF Numbered
<1> QED
    BY <1>1, <1>2, ThreadStepsApart, BreakpointSteps, StoppedNumbers DEF DebuggerStep

LEMMA NumberedAtFirst == Init => Numbered
<1> SUFFICES ASSUME Init PROVE Numbered
    OBVIOUS
<1>1. (CHOOSE loc \in Locations : TRUE) \in Locations
      BY StateModelAssumption
<1>2. held \in Breakpoints
      BY <1>1, FreshTyped DEF Init
<1> QED
    BY <1>2 DEF Init, Numbered

LEMMA NumberedKept == Numbered /\ [Next]_vars => Numbered'
<1>1. CASE Next
      BY <1>1, CallerNumbers, DebuggerNumbers DEF Next
<1>2. CASE UNCHANGED vars
      BY <1>2 DEF Numbered, vars
<1> QED
    BY <1>1, <1>2

\* The list never holds a number twice, and a number that was once on it, or was never given,
\* comes back on no other breakpoint: not after a removal, a reset or an old copy written back
\* (model->next_bp_id).
THEOREM NumbersStayFinal == Spec => NumbersAreFinal
<1>1. Init => Numbered
      BY NumberedAtFirst
<1>2. Numbered /\ [Next]_vars => Numbered'
      BY NumberedKept
<1>3. Numbered /\ [Next]_vars =>
        [/\ Len(bps') = Cardinality(IdsOf(bps'))
         /\ nextId' >= nextId
         /\ \A id \in IdsOf(bps') \ IdsOf(bps) : nextId <= id /\ id < nextId']_vars
  <2> SUFFICES ASSUME Numbered, Next
               PROVE  /\ Len(bps') = Cardinality(IdsOf(bps'))
                      /\ nextId' >= nextId
                      /\ \A id \in IdsOf(bps') \ IdsOf(bps) : nextId <= id /\ id < nextId'
      OBVIOUS
  <2>1. Numbered' /\ NumbersMove
        BY CallerNumbers, DebuggerNumbers DEF Next
  <2>2. Len(bps') = Cardinality(IdsOf(bps'))
        BY <2>1, DistinctCounted DEF Numbered
  <2> QED
      BY <2>1, <2>2 DEF NumbersMove
<1> QED
    BY <1>1, <1>2, <1>3, PTL DEF Spec, NumbersAreFinal

-----------------------------------------------------------------------------
(* What the listeners are told of breakpoints and the execution.            *)

Told ==
    /\ bps' # bps => "breakpoint" \in notified'
    /\ exec' # exec => "exec" \in notified'

LEMMA UpdateTold ==
    ASSUME Numbered, NEW b, Update(b)
    PROVE  Told
<1>1. exec' = exec
      BY DEF Update
<1>2. CASE b.id \in IdsOf(bps)
      BY <1>1, <1>2 DEF Update, Told
<1>3. CASE b.id \notin IdsOf(bps)
  <2>1. \A i \in DOMAIN bps : bps[i].id # b.id
        BY <1>3 DEF IdsOf
  <2>2. DOMAIN bps' = DOMAIN bps /\ \A i \in DOMAIN bps : bps'[i] = bps[i]
        BY <2>1 DEF Update
  <2>3. /\ bps \in [1 .. Len(bps) -> Breakpoints]
        /\ bps' = [i \in DOMAIN bps |-> IF bps[i].id = b.id THEN b ELSE bps[i]]
        BY LenProperties DEF Numbered, Update
  <2>4. bps' = bps
        BY <2>2, <2>3
  <2> QED
      BY <1>1, <2>4 DEF Told
<1> QED
    BY <1>2, <1>3

LEMMA AddTold ==
    ASSUME NEW b, Add(b)
    PROVE  Told
BY DEF Add, Told

LEMMA StoppedTold ==
    ASSUME Numbered, NEW t, NEW hitIds, Stopped(t, hitIds)
    PROVE  Told
<1> DEFINE known == {d \in hitIds : KnownDap(d)}
           hit(i) == \E d \in hitIds : FirstDap(i, d)
           e(i) == IF hit(i) THEN [bps[i] EXCEPT !.hits = @ + 1] ELSE bps[i]
<1>1. /\ bps' = [i \in DOMAIN bps |-> e(i)]
      /\ known # {} => "breakpoint" \in notified'
      /\ exec' = "STOPPED" /\ (exec # "STOPPED" => "exec" \in notified')
      BY DEF Stopped
<1>2. CASE known = {}
  <2>1. \A i \in DOMAIN bps : ~hit(i)
        BY <1>2 DEF FirstDap, KnownDap
  <2> HIDE DEF hit
  <2>2. \A i \in DOMAIN bps : e(i) = bps[i]
        BY <2>1
  <2> HIDE DEF e
  <2>3. bps \in [1 .. Len(bps) -> Breakpoints] /\ DOMAIN bps = 1 .. Len(bps)
        BY LenProperties DEF Numbered
  <2>4. bps' = bps
        BY <1>1, <2>2, <2>3
  <2> QED
      BY <1>1, <2>4 DEF Told
<1>3. CASE known # {}
      BY <1>1, <1>3 DEF Told
<1> QED
    BY <1>2, <1>3

LEMMA StepTold ==
    ASSUME Numbered, Next, exec' # "NONE"
    PROVE  Told
<1>1. ASSUME NEW d, NEW loc,
             \/ SetBreakpoint(d, loc)
             \/ SetBreakpointsResponse(d, loc)
             \/ \E reason \in {"new", "changed", "removed"} : BreakpointEvent(d, loc, reason)
      PROVE  Told
      BY <1>1, UpdateTold, AddTold
      DEF SetBreakpoint, SetBreakpointsResponse, BreakpointEvent, Told
<1>2. ASSUME NEW id, \/ RemoveBreakpoint(id) \/ GetBreakpoint(id)
                     \/ \E e \in BOOLEAN : SetBreakpointEnabled(id, e)
      PROVE  Told
      BY <1>2, UpdateTold DEF RemoveBreakpoint, GetBreakpoint, SetBreakpointEnabled, Told
<1>3. ASSUME NEW e \in BOOLEAN, UpdateBreakpoint(e)
      PROVE  Told
      BY <1>3, UpdateTold DEF UpdateBreakpoint
<1>4. CASE ClearBreakpoints \/ Reset
      BY <1>4 DEF ClearBreakpoints, Reset, Told
<1>5. ASSUME NEW t, SelectThread(t) \/ ThreadExited(t) \/ ThreadStarted(t)
      PROVE  Told
  <2>1. CASE SelectThread(t)
        BY <2>1 DEF SelectThread, Told
  <2>2. CASE ThreadExited(t)
        BY <2>2 DEF ThreadExited, Told
  <2>3. CASE ThreadStarted(t)
        BY <2>3 DEF ThreadStarted, ThreadsResponse, Told
  <2> QED
      BY <1>5, <2>1, <2>2, <2>3
<1>6. ASSUME NEW s, SetExecState(s)
      PROVE  Told
      BY <1>6 DEF SetExecState, Told
<1>7. ASSUME NEW ts, ThreadsResponse(ts)
      PROVE  Told
      BY <1>7 DEF ThreadsResponse, Told
<1>8. CASE ClearThreads
      BY <1>8 DEF ClearThreads, Told
<1>9. CASE CallerStep
      BY <1>1, <1>2, <1>3, <1>4, <1>5, <1>6, <1>8, <1>9 DEF CallerStep
<1>10. CASE DebuggerStep
       BY <1>1, <1>5, <1>6, <1>7, <1>10, StoppedTold DEF DebuggerStep, Continued, Ended
<1> QED
    BY <1>9, <1>10 DEF Next

\* A listener that looks again when it is told misses no change of the breakpoints and of the
\* execution state, but for a reset, which leaves the state NONE (md_state_model_notify).
THEOREM ChangesStayTold == Spec => ChangesAreTold
<1>1. Init => Numbered
      BY NumberedAtFirst
<1>2. Numbered /\ [Next]_vars => Numbered'
      BY NumberedKept
<1>3. Numbered /\ [Next]_vars =>
        [exec' # "NONE" => /\ bps' # bps => "breakpoint" \in notified'
                           /\ exec' # exec => "exec" \in notified']_vars
      BY StepTold DEF Told
<1> QED
    BY <1>1, <1>2, <1>3, PTL DEF Spec, ChangesAreTold

-----------------------------------------------------------------------------
(* Chains of lists.                                                         *)

\* A key has one list.
OneList(chain) == \A i, j \in DOMAIN chain : chain[i].of = chain[j].of => i = j

\* The list of the key has these items.
Has(chain, key, items) == \E i \in DOMAIN chain : chain[i].of = key /\ chain[i].items = items

\* Both chains have the same list of the key, or neither has one.
Alike(chain, other, key) ==
    /\ \A i \in DOMAIN chain : chain[i].of = key => Has(other, key, chain[i].items)
    /\ \A j \in DOMAIN other : other[j].of = key => Chained(chain, key)

LEMMA ReadFound ==
    ASSUME NEW chain, OneList(chain), NEW i \in DOMAIN chain, NEW none
    PROVE  Read(chain, chain[i].of, none) = chain[i].items
<1> DEFINE key == chain[i].of
           j == CHOOSE n \in DOMAIN chain : chain[n].of = key
<1>1. j \in DOMAIN chain /\ chain[j].of = key
      OBVIOUS
<1>2. j = i
      BY <1>1 DEF OneList
<1>3. Chained(chain, key)
      BY DEF Chained
<1> QED
    BY <1>2, <1>3 DEF Read

LEMMA ReadHas ==
    ASSUME NEW chain, OneList(chain), NEW key, NEW items, Has(chain, key, items), NEW none
    PROVE  Read(chain, key, none) = items
BY ReadFound DEF Has

LEMMA ReadNothing ==
    ASSUME NEW chain, NEW key, ~Chained(chain, key), NEW none
    PROVE  Read(chain, key, none) = none
BY DEF Read

\* Chains with the same list of a key read the same.
LEMMA ReadAgrees ==
    ASSUME NEW chain, NEW other, OneList(chain), OneList(other), NEW key,
           Alike(chain, other, key), NEW none
    PROVE  Read(other, key, none) = Read(chain, key, none)
<1>1. CASE Chained(chain, key)
  <2>1. PICK i \in DOMAIN chain : chain[i].of = key
        BY <1>1 DEF Chained
  <2>2. PICK j \in DOMAIN other : other[j].of = key /\ other[j].items = chain[i].items
        BY <2>1 DEF Alike, Has
  <2>3. Read(chain, key, none) = chain[i].items
        BY <2>1, ReadFound
  <2>4. Read(other, key, none) = other[j].items
        BY <2>2, ReadFound
  <2> QED
      BY <2>2, <2>3, <2>4
<1>2. CASE ~Chained(chain, key)
  <2>1. ~Chained(other, key)
        BY <1>2 DEF Chained, Alike
  <2> QED
      BY <1>2, <2>1, ReadNothing
<1> QED
    BY <1>1, <1>2

\* After Put a reader of the key gets the new list, and the others what they got before.
LEMMA PutReads ==
    ASSUME NEW K, NEW I, NEW chain \in Seq([of : K, items : I]), OneList(chain),
           NEW key \in K, NEW new \in I, NEW c, c = Put(chain, key, new)
    PROVE  /\ c \in Seq([of : K, items : I]) /\ OneList(c)
           /\ Has(c, key, new)
           /\ \A k \in K \ {key} : Alike(chain, c, k)
<1> DEFINE R == [of : K, items : I]
           l == [of |-> key, items |-> new]
           put(i) == [chain[i] EXCEPT !.items = new]
           e(i) == IF chain[i].of = key THEN put(i) ELSE chain[i]
<1>1. Len(chain) \in Nat /\ DOMAIN chain = 1 .. Len(chain)
      BY LenProperties
<1>2. \A i \in DOMAIN chain : chain[i] \in R
  <2> HIDE DEF R
  <2>1. chain \in Seq(R)
        BY DEF R
  <2> QED
      BY <1>1, <2>1, ElementOfSeq
<1>3. CASE Chained(chain, key)
  <2>1. c = [i \in 1 .. Len(chain) |-> e(i)]
        BY <1>1, <1>3 DEF Put
  <2>2. ASSUME NEW i \in DOMAIN chain
        PROVE  /\ e(i) \in R /\ e(i).of = chain[i].of
               /\ chain[i].of = key => e(i).items = new
               /\ chain[i].of # key => e(i).items = chain[i].items
    <3>1. put(i) \in R /\ put(i).of = chain[i].of /\ put(i).items = new
          BY <1>2
    <3> HIDE DEF put
    <3> QED
        BY <1>2, <3>1
  <2> HIDE DEF e, R
  <2>3. c \in Seq(R) /\ DOMAIN c = DOMAIN chain
        BY <1>1, <2>1, <2>2
  <2>4. /\ \A i \in DOMAIN chain : c[i].of = chain[i].of
        /\ \A i \in DOMAIN chain : chain[i].of = key => c[i].items = new
        /\ \A i \in DOMAIN chain : chain[i].of # key => c[i].items = chain[i].items
        BY <1>1, <2>1, <2>2
  <2>5. OneList(c)
        BY <2>3, <2>4 DEF OneList
  <2>6. PICK i \in DOMAIN chain : chain[i].of = key
        BY <1>3 DEF Chained
  <2>7. Has(c, key, new)
        BY <2>3, <2>4, <2>6 DEF Has
  <2>8. ASSUME NEW k \in K \ {key}
        PROVE  Alike(chain, c, k)
        BY <2>3, <2>4 DEF Chained, Alike, Has
  <2> QED
      BY <2>3, <2>5, <2>7, <2>8 DEF R
<1>4. CASE ~Chained(chain, key)
  <2>1. c = <<l>> \o chain /\ l \in R /\ l.of = key /\ l.items = new
        BY <1>4 DEF Put
  <2> HIDE DEF l
  <2>2. /\ c \in Seq(R) /\ DOMAIN c = 1 .. (Len(chain) + 1)
        /\ c[1] = l /\ \A i \in 1 .. Len(chain) : c[i + 1] = chain[i]
        BY <2>1, InFront
  <2> HIDE DEF R
  <2>3. /\ 1 \in DOMAIN c
        /\ \A i \in DOMAIN chain : i + 1 \in DOMAIN c /\ c[i + 1] = chain[i]
        /\ \A k \in DOMAIN c : k # 1 => k - 1 \in DOMAIN chain /\ c[k] = chain[k - 1]
    <3>1. \A k \in DOMAIN c : k # 1 => k - 1 \in 1 .. Len(chain) /\ (k - 1) + 1 = k
          BY <1>1, <2>2
    <3> QED
        BY <1>1, <2>2, <3>1
  <2>4. \A i \in DOMAIN chain : chain[i].of # key
        BY <1>4 DEF Chained
  <2>5. OneList(c)
    <3> SUFFICES ASSUME NEW k \in DOMAIN c, NEW m \in DOMAIN c, c[k].of = c[m].of
                 PROVE  k = m
        BY DEF OneList
    <3>1. CASE k = 1 \/ m = 1
          BY <2>1, <2>2, <2>3, <2>4, <3>1
    <3>2. CASE k # 1 /\ m # 1
      <4>1. k - 1 = m - 1
            BY <2>3, <3>2 DEF OneList
      <4> QED
          BY <1>1, <2>2, <4>1
    <3> QED
        BY <3>1, <3>2
  <2>6. Has(c, key, new)
        BY <2>1, <2>2, <2>3 DEF Has
  <2>7. ASSUME NEW k \in K \ {key}
        PROVE  Alike(chain, c, k)
    <3>1. \A i \in DOMAIN chain : chain[i].of = k => Has(c, k, chain[i].items)
          BY <2>3 DEF Has
    <3>2. \A j \in DOMAIN c : c[j].of = k => Chained(chain, k)
          BY <2>1, <2>2, <2>3 DEF Chained
    <3> QED
        BY <3>1, <3>2 DEF Alike
  <2> QED
      BY <2>2, <2>5, <2>6, <2>7 DEF R
<1> QED
    BY <1>3, <1>4

\* After Drop there is no list of the key, and the others are where they were.
LEMMA DropReads ==
    ASSUME NEW K, NEW I, NEW chain \in Seq([of : K, items : I]), OneList(chain),
           NEW key, NEW c, c = Drop(chain, key)
    PROVE  /\ c \in Seq([of : K, items : I]) /\ OneList(c)
           /\ ~Chained(c, key)
           /\ \A k \in K \ {key} : Alike(chain, c, k)
<1> DEFINE R == [of : K, items : I]
           first(i) == chain[i].of = key /\ \A j \in 1 .. (i - 1) : chain[j].of # key
           at == CHOOSE i \in DOMAIN chain : first(i)
<1>1. Len(chain) \in Nat /\ DOMAIN chain = 1 .. Len(chain)
      BY LenProperties
<1>2. CASE ~Chained(chain, key)
      BY <1>2 DEF Drop, Alike, Has, Chained
<1>3. CASE Chained(chain, key)
  <2>1. PICK n \in DOMAIN chain : chain[n].of = key
        BY <1>3 DEF Chained
  <2>2. first(n)
    <3> SUFFICES ASSUME NEW j \in 1 .. (n - 1) PROVE chain[j].of # key
        BY <2>1
    <3>1. j \in DOMAIN chain /\ j # n
          BY <1>1
    <3> QED
        BY <2>1, <3>1 DEF OneList
  <2>3. c = RemoveAt(chain, at)
        BY <1>3 DEF Drop
  <2>4. at \in DOMAIN chain /\ chain[at].of = key
        BY <2>2
  <2> HIDE DEF at, first, R
  <2>5. /\ c \in Seq(R) /\ at \in 1 .. Len(chain)
        /\ DOMAIN c = 1 .. (Len(chain) - 1)
        /\ \A k \in DOMAIN c : c[k] = IF k < at THEN chain[k] ELSE chain[k + 1]
    <3>1. PICK S : S = [of : K, items : I]
          OBVIOUS
    <3>2. chain \in Seq(S)
          BY <3>1
    <3>3. /\ c \in Seq(S) /\ at \in 1 .. Len(chain)
          /\ DOMAIN c = 1 .. (Len(chain) - 1)
          /\ \A k \in DOMAIN c : c[k] = IF k < at THEN chain[k] ELSE chain[k + 1]
          BY ONLY <2>3, <2>4, <3>2, TakenOut, SMTT(20)
    <3> QED
        BY <3>1, <3>3 DEF R
  <2> DEFINE old(k) == IF k < at THEN k ELSE k + 1
             new(i) == IF i < at THEN i ELSE i - 1
  <2>6. /\ \A k \in DOMAIN c : old(k) \in DOMAIN chain /\ old(k) # at /\ c[k] = chain[old(k)]
        /\ \A k, m \in DOMAIN c : old(k) = old(m) => k = m
        BY <1>1, <2>5
  <2>7. ASSUME NEW i \in DOMAIN chain, i # at
        PROVE  new(i) \in DOMAIN c /\ c[new(i)] = chain[i]
    <3>1. new(i) \in DOMAIN c /\ old(new(i)) = i
          BY <1>1, <2>5, <2>7
    <3> QED
        BY <2>6, <3>1
  <2> HIDE DEF old, new
  <2>8. OneList(c)
        BY <2>6 DEF OneList
  <2>9. ~Chained(c, key)
        BY <2>4, <2>6 DEF OneList, Chained
  <2>10. ASSUME NEW k \in K \ {key}
         PROVE  Alike(chain, c, k)
    <3>1. \A i \in DOMAIN chain : chain[i].of = k => Has(c, k, chain[i].items)
          BY <2>4, <2>7 DEF Has
    <3>2. \A j \in DOMAIN c : c[j].of = k => Chained(chain, k)
          BY <2>6 DEF Chained
    <3> QED
        BY <3>1, <3>2 DEF Alike
  <2> QED
      BY <2>5, <2>8, <2>9, <2>10 DEF R
<1> QED
    BY <1>2, <1>3

-----------------------------------------------------------------------------
(* What the listeners have copied.                                          *)

Stacks == FrameLists \cup {<<>>}
Numbers == Counts \cup {0}
Raised == {{}} \cup {{x} : x \in Exceptions}
Values == Stacks \cup Numbers \cup Raised

Copies == UNION {[E -> UNION {[Keys(e) -> Values] : e \in Events}] : E \in SUBSET Events}
Told1 == {l \in [callback : Callbacks, copy : Copies] :
            /\ DOMAIN l.copy = Wants[l.callback]
            /\ \A e \in Wants[l.callback] : l.copy[e] \in [Keys(e) -> Values]}

\* What a listener has of one key: the model's, unless that went without a word.
Sees(l) ==
    \A e \in DOMAIN l.copy : \A k \in Keys(e) : <<e, k>> \in untold \/ l.copy[e][k] = Now(e, k)

Copied ==
    /\ listeners \in Seq(Told1)
    /\ \A i \in DOMAIN listeners : Sees(listeners[i])
    /\ \A e \in Events : \A k \in Keys(e) : <<e, k>> \in untold => Now(e, k) = Nothing(e)

Inspected ==
    /\ stacks \in Seq([of : DataThreads, items : Stacks]) /\ OneList(stacks)
    /\ varLists \in Seq([of : Scopes, items : Numbers]) /\ OneList(varLists)
    /\ exception \in Raised
    /\ Copied

LEMMA WantsEvents == \A c \in Callbacks : Wants[c] \subseteq Events
BY StateDataAssumption DEF Events

\* What a reader gets from a chain is one of its lists, or none.
LEMMA ReadTyped ==
    ASSUME NEW K, NEW I, NEW chain \in Seq([of : K, items : I]), OneList(chain),
           NEW key, NEW none \in I
    PROVE  Read(chain, key, none) \in I
<1>1. CASE Chained(chain, key)
  <2>1. PICK i \in DOMAIN chain : chain[i].of = key
        BY <1>1 DEF Chained
  <2> DEFINE R == [of : K, items : I]
  <2>2. R = [of : K, items : I]
        OBVIOUS
  <2> HIDE DEF R
  <2>3. chain[i] \in R
        BY <2>2, LenProperties, ElementOfSeq
  <2>4. chain[i].items \in I
        BY <2>2, <2>3
  <2> QED
      BY <2>1, <2>4, ReadFound
<1>2. CASE ~Chained(chain, key)
      BY <1>2, ReadNothing
<1> QED
    BY <1>1, <1>2

LEMMA NowTyped ==
    ASSUME Inspected, NEW e \in Events, NEW k \in Keys(e)
    PROVE  Now(e, k) \in Values
<1>1. FramesOf(k) \in Stacks
  <2>1. <<>> \in Stacks
        BY DEF Stacks
  <2> QED
      BY <2>1, ReadTyped DEF Inspected, FramesOf
<1>2. VariablesOf(k) \in Numbers
  <2>1. 0 \in Numbers
        BY DEF Numbers
  <2> QED
      BY <2>1, ReadTyped DEF Inspected, VariablesOf
<1>3. exception \in Raised
      BY DEF Inspected
<1> QED
    BY <1>1, <1>2, <1>3 DEF Now, Values, Events

\* The listener with a new copy of one key.
Copying(l, event, key, now) == [l EXCEPT !.copy[event][key] = now]

\* A listener told of one key has what that key has now, and else what it had.
LEMMA ToldCopies ==
    ASSUME NEW l \in Told1, NEW event \in Wants[l.callback], NEW key \in Keys(event),
           NEW now \in Values, NEW m, m = Copying(l, event, key, now)
    PROVE  /\ m \in Told1 /\ m.callback = l.callback
           /\ DOMAIN m.copy = DOMAIN l.copy
           /\ m.copy[event][key] = now
           /\ \A k \in Keys(event) \ {key} : m.copy[event][k] = l.copy[event][k]
           /\ \A e \in DOMAIN l.copy \ {event} : m.copy[e] = l.copy[e]
<1> DEFINE g == [l.copy[event] EXCEPT ![key] = now]
           f == [l.copy EXCEPT ![event] = g]
           W == Wants[l.callback]
<1>1. /\ l \in [callback : Callbacks, copy : Copies] /\ DOMAIN l.copy = W
      /\ \A e \in W : l.copy[e] \in [Keys(e) -> Values]
      BY DEF Told1
<1>2. l.callback \in Callbacks /\ l.copy \in Copies /\ W \subseteq Events
      BY <1>1, WantsEvents
<1> HIDE DEF W
<1>3. /\ g \in [Keys(event) -> Values] /\ g[key] = now
      /\ \A k \in Keys(event) \ {key} : g[k] = l.copy[event][k]
      BY <1>1 DEF W
<1> HIDE DEF g
<1>4. l.copy = [e \in W |-> l.copy[e]]
  <2>1. PICK E \in SUBSET Events : l.copy \in [E -> UNION {[Keys(e) -> Values] : e \in Events}]
        BY <1>2 DEF Copies
  <2> QED
      BY <1>1, <2>1
<1>5. /\ DOMAIN f = W /\ f[event] = g /\ \A e \in W \ {event} : f[e] = l.copy[e]
      /\ f = [e \in W |-> f[e]]
      BY <1>1, <1>4 DEF W
<1>6. \A e \in W : f[e] \in [Keys(e) -> Values]
      BY <1>1, <1>3, <1>5
<1>7. m = [l EXCEPT !.copy = f]
      BY <1>1 DEF g, Copying
<1> HIDE DEF f
<1>8. f \in Copies
  <2>1. \A e \in W : f[e] \in UNION {[Keys(d) -> Values] : d \in Events}
        BY <1>2, <1>6
  <2>2. f \in [W -> UNION {[Keys(e) -> Values] : e \in Events}]
        BY <1>5, <2>1
  <2> QED
      BY <1>2, <2>2 DEF Copies
<1>9. m \in [callback : Callbacks, copy : Copies] /\ m.callback = l.callback /\ m.copy = f
      BY <1>1, <1>2, <1>7, <1>8
<1>10. m \in Told1
       BY <1>5, <1>6, <1>9 DEF Told1, W
<1> QED
    BY <1>1, <1>3, <1>5, <1>9, <1>10 DEF W

\* After a step that tells the listeners, each has what the key has now.
LEMMA NotifySees ==
    ASSUME Inspected, NEW event \in Events, NEW key \in Keys(event), NEW now \in Values,
           Tell(event, key, now),
           Now(event, key)' = now,
           \A e \in Events : \A k \in Keys(e) : <<e, k>> # <<event, key>> => Now(e, k)' = Now(e, k)
    PROVE  Copied'
<1> DEFINE m(i) == Copying(listeners[i], event, key, now)
           e(i) == IF event \in Wants[listeners[i].callback] THEN m(i) ELSE listeners[i]
           sees(l) == \A d \in DOMAIN l.copy : \A k \in Keys(d) :
                          <<d, k>> \in untold' \/ l.copy[d][k] = Now(d, k)'
<1>1. Len(listeners) \in Nat /\ DOMAIN listeners = 1 .. Len(listeners)
      /\ \A i \in DOMAIN listeners : listeners[i] \in Told1
      BY LenProperties, ElementOfSeq DEF Inspected, Copied
<1>2. listeners' = [i \in 1 .. Len(listeners) |-> e(i)] /\ untold' = untold \ {<<event, key>>}
      BY <1>1 DEF Tell, Notify, Copying
<1>3. ASSUME NEW i \in DOMAIN listeners
      PROVE  e(i) \in Told1 /\ sees(e(i))
  <2> DEFINE l == listeners[i]
  <2>1. /\ l \in Told1 /\ l.callback \in Callbacks /\ DOMAIN l.copy = Wants[l.callback]
        /\ DOMAIN l.copy \subseteq Events
        /\ \A d \in DOMAIN l.copy : \A k \in Keys(d) :
               <<d, k>> \in untold \/ l.copy[d][k] = Now(d, k)
        BY <1>1, WantsEvents DEF Told1, Inspected, Copied, Sees
  <2>2. ASSUME NEW d \in DOMAIN l.copy, NEW k \in Keys(d), <<d, k>> # <<event, key>>
        PROVE  <<d, k>> \in untold' \/ l.copy[d][k] = Now(d, k)'
    <3>1. Now(d, k)' = Now(d, k) /\ (<<d, k>> \in untold' <=> <<d, k>> \in untold)
          BY <1>2, <2>1, <2>2
    <3> QED
        BY <2>1, <3>1
  <2>3. CASE event \notin Wants[l.callback]
    <3>1. e(i) = l
          BY <2>3
    <3>2. \A d \in DOMAIN l.copy : d # event
          BY <2>1, <2>3
    <3> HIDE DEF e, l
    <3> QED
        BY <2>1, <2>2, <3>1, <3>2
  <2>4. CASE event \in Wants[l.callback]
    <3>1. e(i) = m(i)
          BY <2>4
    <3>2. m(i) = Copying(l, event, key, now)
          OBVIOUS
    <3> HIDE DEF e, l, m
    <3>3. /\ m(i) \in Told1 /\ DOMAIN m(i).copy = DOMAIN l.copy
          /\ m(i).copy[event][key] = now
          /\ \A k \in Keys(event) \ {key} : m(i).copy[event][k] = l.copy[event][k]
          /\ \A d \in DOMAIN l.copy \ {event} : m(i).copy[d] = l.copy[d]
          BY <2>1, <2>4, <3>2, ToldCopies
    <3>4. ASSUME NEW d \in DOMAIN l.copy, NEW k \in Keys(d)
          PROVE  <<d, k>> \in untold' \/ m(i).copy[d][k] = Now(d, k)'
      <4>1. CASE d = event /\ k = key
            BY <3>3, <4>1
      <4>2. CASE d # event \/ k # key
        <5>1. m(i).copy[d][k] = l.copy[d][k]
              BY <3>3, <4>2
        <5> QED
            BY <2>2, <4>2, <5>1
      <4> QED
          BY <4>1, <4>2
    <3> QED
        BY <3>1, <3>3, <3>4
  <2> QED
      BY <2>3, <2>4
<1> HIDE DEF e
<1>4. listeners' \in Seq(Told1)
      BY <1>1, <1>2, <1>3
<1>5. DOMAIN listeners' = DOMAIN listeners /\ \A i \in DOMAIN listeners : listeners'[i] = e(i)
      BY <1>1, <1>2
<1>6. ASSUME NEW i \in DOMAIN listeners'
      PROVE  sees(listeners'[i])
  <2> HIDE DEF sees
  <2> QED
      BY <1>3, <1>5, <1>6
<1>7. ASSUME NEW d \in Events, NEW k \in Keys(d), <<d, k>> \in untold'
      PROVE  Now(d, k)' = Nothing(d)
  <2>1. <<d, k>> # <<event, key>> /\ <<d, k>> \in untold
        BY <1>2, <1>7
  <2> QED
      BY <1>7, <2>1 DEF Inspected, Copied
<1> QED
    BY <1>4, <1>6, <1>7 DEF Copied, Sees, Nothing, Keys

\* A step that takes the values of some keys away silently, and leaves the others.
LEMMA SilentSees ==
    ASSUME Inspected, NEW keys, Silently(keys),
           \A e \in Events : \A k \in Keys(e) :
               Now(e, k)' = IF <<e, k>> \in keys THEN Nothing(e) ELSE Now(e, k)
    PROVE  Copied'
<1>1. /\ listeners \in Seq(Told1) /\ \A i \in DOMAIN listeners : listeners[i] \in Told1
      /\ \A i \in DOMAIN listeners : Sees(listeners[i])
      /\ \A e \in Events : \A k \in Keys(e) : <<e, k>> \in untold => Now(e, k) = Nothing(e)
      BY LenProperties, ElementOfSeq DEF Inspected, Copied
<1>2. listeners' = listeners
      BY DEF Silently
<1>3. ASSUME NEW d, NEW k
      PROVE  <<d, k>> \in untold' <=>
                 <<d, k>> \in untold \/ (<<d, k>> \in keys /\ Now(d, k) # Nothing(d))
      BY DEF Silently
<1>4. ASSUME NEW i \in DOMAIN listeners
      PROVE  Sees(listeners[i])'
  <2> DEFINE l == listeners[i]
  <2>1. DOMAIN l.copy \subseteq Events
        BY <1>1, WantsEvents DEF Told1
  <2>2. ASSUME NEW d \in DOMAIN l.copy, NEW k \in Keys(d)
        PROVE  <<d, k>> \in untold' \/ l.copy[d][k] = Now(d, k)'
    <3>1. <<d, k>> \in untold \/ l.copy[d][k] = Now(d, k)
          BY <1>1, <2>2 DEF Sees
    <3>2. Now(d, k)' = IF <<d, k>> \in keys THEN Nothing(d) ELSE Now(d, k)
          BY <2>1, <2>2
    <3> QED
        BY <1>3, <3>1, <3>2
  <2> QED
      BY <1>2, <2>2 DEF Sees, Keys
<1>5. ASSUME NEW d \in Events, NEW k \in Keys(d), <<d, k>> \in untold'
      PROVE  Now(d, k)' = Nothing(d)
      BY <1>1, <1>3, <1>5
<1> QED
    BY <1>1, <1>2, <1>4, <1>5 DEF Copied, Nothing, Keys

\* A step that touches neither the lists nor the listeners.
LEMMA SameSees ==
    ASSUME Inspected, listeners' = listeners, untold' = untold,
           \A e \in Events : \A k \in Keys(e) : Now(e, k)' = Now(e, k)
    PROVE  Copied'
<1>1. Silently({})
      BY DEF Silently
<1> QED
    BY <1>1, SilentSees

\* What an event's key has depends on the lists of that event alone.
LEMMA SameNow ==
    ASSUME NEW e \in Events, NEW k,
           \/ e = "stack" /\ stacks' = stacks
           \/ e = "variable" /\ varLists' = varLists
           \/ e = "exception" /\ exception' = exception
    PROVE  Now(e, k)' = Now(e, k)
BY DEF Events, Now, FramesOf, VariablesOf

\* The frames of a thread are replaced, or lost for want of memory.
LEMMA FramesSeen ==
    ASSUME Inspected, NEW t \in DataThreads, NEW frames \in FrameLists, NEW memory \in BOOLEAN,
           SetStackFrames(t, frames, memory), UNCHANGED <<varLists, exception>>
    PROVE  Inspected'
<1> DEFINE R == [of : DataThreads, items : Stacks]
<1>1. /\ stacks \in Seq(R) /\ OneList(stacks) /\ frames \in Stacks /\ <<>> \in Stacks
      /\ frames \in Values
      BY DEF Inspected, Stacks, Values
<1>2. t \in Keys("stack") /\ "stack" \in Events
      BY DEF Keys, Events
<1>3. ASSUME NEW new \in Stacks, stacks' = Put(stacks, t, new)
      PROVE  /\ stacks' \in Seq(R) /\ OneList(stacks)'
             /\ Now("stack", t)' = new
             /\ \A e \in Events : \A k \in Keys(e) : <<e, k>> # <<"stack", t>> => Now(e, k)' = Now(e, k)
  <2>0. /\ stacks' \in Seq(R) /\ OneList(stacks') /\ Has(stacks', t, new)
        /\ \A k \in DataThreads \ {t} : Alike(stacks, stacks', k)
        BY <1>1, <1>3, PutReads
  <2>1. /\ stacks' \in Seq(R) /\ OneList(stacks')
        /\ Read(stacks', t, <<>>) = new
        /\ \A k \in DataThreads \ {t} : Read(stacks', k, <<>>) = Read(stacks, k, <<>>)
        BY <1>1, <2>0, ReadHas, ReadAgrees
  <2>2. Now("stack", t)' = new
        BY <2>1 DEF Now, FramesOf
  <2>3. ASSUME NEW e \in Events, NEW k \in Keys(e), <<e, k>> # <<"stack", t>>
        PROVE  Now(e, k)' = Now(e, k)
    <3>1. CASE e = "stack"
      <4>1. k \in DataThreads \ {t}
            BY <2>3, <3>1 DEF Keys
      <4> QED
          BY <2>1, <3>1, <4>1 DEF Now, FramesOf
    <3>2. CASE e # "stack"
          BY <3>2, SameNow DEF Events
    <3> QED
        BY <3>1, <3>2
  <2> QED
      BY <2>1, <2>2, <2>3 DEF OneList
<1> HIDE DEF R
<1>4. CASE memory
  <2>1. stacks' = Put(stacks, t, frames) /\ Tell("stack", t, frames)
        BY <1>4 DEF SetStackFrames
  <2>2. Copied'
        BY <1>1, <1>2, <1>3, <2>1, NotifySees
  <2> QED
      BY <1>1, <1>3, <2>1, <2>2 DEF Inspected, R, Told1, Copies, Keys, Values, Raised
<1>5. CASE ~memory
  <2>1. /\ Silently({<<"stack", t>>})
        /\ stacks' = Put(stacks, t, <<>>) \/ (stacks' = stacks /\ ~Chained(stacks, t))
        BY <1>5 DEF SetStackFrames, WithoutItems
  <2>2. CASE stacks' = Put(stacks, t, <<>>)
    <3>1. Now("stack", t)' = Nothing("stack")
          BY <1>1, <1>3, <2>2 DEF Nothing
    <3>2. \A e \in Events : \A k \in Keys(e) :
              Now(e, k)' = IF <<e, k>> \in {<<"stack", t>>} THEN Nothing(e) ELSE Now(e, k)
          BY <1>1, <1>3, <2>2, <3>1
    <3>3. Copied'
          BY <2>1, <3>2, SilentSees
    <3> QED
        BY <1>1, <1>3, <2>2, <3>3 DEF Inspected, R
  <2>3. CASE stacks' = stacks /\ ~Chained(stacks, t)
    <3>1. \A e \in Events : \A k \in Keys(e) : Now(e, k)' = Now(e, k)
          BY <2>3, SameNow DEF Events
    <3>2. Now("stack", t) = Nothing("stack")
          BY <2>3, ReadNothing DEF Now, Nothing, FramesOf
    <3>3. \A e \in Events : \A k \in Keys(e) :
              Now(e, k)' = IF <<e, k>> \in {<<"stack", t>>} THEN Nothing(e) ELSE Now(e, k)
          BY <3>1, <3>2
    <3>4. Copied'
          BY <2>1, <3>3, SilentSees
    <3> QED
        BY <2>3, <3>4 DEF Inspected, OneList
  <2> QED
      BY <2>1, <2>2, <2>3
<1> QED
    BY <1>4, <1>5

\* The variables of a scope are replaced, or lost for want of memory.
LEMMA VariablesSeen ==
    ASSUME Inspected, NEW s \in Scopes, NEW n \in Counts, NEW memory \in BOOLEAN,
           VariablesResponse(s, n, memory)
    PROVE  Inspected'
<1> DEFINE R == [of : Scopes, items : Numbers]
<1>1. /\ varLists \in Seq(R) /\ OneList(varLists) /\ n \in Numbers /\ 0 \in Numbers
      /\ n \in Values
      BY DEF Inspected, Numbers, Values
<1>2. s \in Keys("variable") /\ "variable" \in Events
      BY DEF Keys, Events
<1>3. stacks' = stacks /\ exception' = exception
      BY DEF VariablesResponse
<1>4. ASSUME NEW new \in Numbers, varLists' = Put(varLists, s, new)
      PROVE  /\ varLists' \in Seq(R) /\ OneList(varLists)'
             /\ Now("variable", s)' = new
             /\ \A e \in Events : \A k \in Keys(e) :
                    <<e, k>> # <<"variable", s>> => Now(e, k)' = Now(e, k)
  <2>1. /\ varLists' \in Seq(R) /\ OneList(varLists') /\ Has(varLists', s, new)
        /\ \A k \in Scopes \ {s} : Alike(varLists, varLists', k)
        BY <1>1, <1>4, PutReads
  <2>2. /\ Read(varLists', s, 0) = new
        /\ \A k \in Scopes \ {s} : Read(varLists', k, 0) = Read(varLists, k, 0)
        BY <1>1, <2>1, ReadHas, ReadAgrees
  <2>3. Now("variable", s)' = new
        BY <2>2 DEF Now, VariablesOf
  <2>4. ASSUME NEW e \in Events, NEW k \in Keys(e), <<e, k>> # <<"variable", s>>
        PROVE  Now(e, k)' = Now(e, k)
    <3>1. CASE e = "variable"
      <4>1. k \in Scopes \ {s}
            BY <2>4, <3>1 DEF Keys
      <4> QED
          BY <2>2, <3>1, <4>1 DEF Now, VariablesOf
    <3>2. CASE e # "variable"
          BY <1>3, <3>2, SameNow DEF Events
    <3> QED
        BY <3>1, <3>2
  <2> QED
      BY <2>1, <2>3, <2>4 DEF OneList
<1> HIDE DEF R
<1>5. CASE memory
  <2>1. varLists' = Put(varLists, s, n) /\ Tell("variable", s, n)
        BY <1>5 DEF VariablesResponse
  <2>2. Copied'
        BY <1>1, <1>2, <1>4, <2>1, NotifySees
  <2> QED
      BY <1>1, <1>3, <1>4, <2>1, <2>2 DEF Inspected, R, OneList
<1>6. CASE ~memory
  <2>1. /\ Silently({<<"variable", s>>})
        /\ varLists' = Put(varLists, s, 0) \/ (varLists' = varLists /\ ~Chained(varLists, s))
        BY <1>6 DEF VariablesResponse, WithoutItems
  <2>2. CASE varLists' = Put(varLists, s, 0)
    <3>1. Now("variable", s)' = Nothing("variable")
          BY <1>1, <1>4, <2>2 DEF Nothing
    <3>2. \A e \in Events : \A k \in Keys(e) :
              Now(e, k)' = IF <<e, k>> \in {<<"variable", s>>} THEN Nothing(e) ELSE Now(e, k)
          BY <1>1, <1>4, <2>2, <3>1
    <3>3. Copied'
          BY <2>1, <3>2, SilentSees
    <3> QED
        BY <1>1, <1>3, <1>4, <2>2, <3>3 DEF Inspected, R, OneList
  <2>3. CASE varLists' = varLists /\ ~Chained(varLists, s)
    <3>1. \A e \in Events : \A k \in Keys(e) : Now(e, k)' = Now(e, k)
          BY <1>3, <2>3, SameNow DEF Events
    <3>2. Now("variable", s) = Nothing("variable")
          BY <2>3, ReadNothing DEF Now, Nothing, VariablesOf
    <3>3. \A e \in Events : \A k \in Keys(e) :
              Now(e, k)' = IF <<e, k>> \in {<<"variable", s>>} THEN Nothing(e) ELSE Now(e, k)
          BY <3>1, <3>2
    <3>4. Copied'
          BY <2>1, <3>3, SilentSees
    <3> QED
        BY <1>3, <2>3, <3>4 DEF Inspected, OneList
  <2> QED
      BY <2>1, <2>2, <2>3
<1> QED
    BY <1>5, <1>6

\* A list or all of them go, and nobody is told.
LEMMA ClearedSeen ==
    ASSUME Inspected,
           \/ \E t \in DataThreads : ClearStackFrames(t)
           \/ ClearAllStackFrames \/ ClearVariables \/ ResetInspection
    PROVE  Inspected'
<1>1. /\ <<>> \in Seq([of : DataThreads, items : Stacks]) /\ OneList(<<>>)
      /\ <<>> \in Seq([of : Scopes, items : Numbers]) /\ {} \in Raised
      BY DEF OneList, Raised
<1>2. \A k, none : Read(<<>>, k, none) = none
      BY ReadNothing DEF Chained
<1>3. ASSUME NEW t \in DataThreads, ClearStackFrames(t)
      PROVE  Inspected'
  <2>1. /\ stacks' = Drop(stacks, t) /\ UNCHANGED <<varLists, exception>>
        /\ Silently({<<"stack", t>>})
        BY <1>3 DEF ClearStackFrames
  <2>2. stacks \in Seq([of : DataThreads, items : Stacks]) /\ OneList(stacks)
        BY DEF Inspected
  <2>3. /\ stacks' \in Seq([of : DataThreads, items : Stacks]) /\ OneList(stacks')
        /\ ~Chained(stacks', t)
        /\ \A k \in DataThreads \ {t} : Alike(stacks, stacks', k)
        BY <2>1, <2>2, DropReads
  <2>4. \A k \in DataThreads :
            Read(stacks', k, <<>>) = IF k = t THEN <<>> ELSE Read(stacks, k, <<>>)
        BY <2>2, <2>3, ReadNothing, ReadAgrees
  <2>5. ASSUME NEW e \in Events, NEW k \in Keys(e)
        PROVE  Now(e, k)' = IF <<e, k>> \in {<<"stack", t>>} THEN Nothing(e) ELSE Now(e, k)
    <3>1. CASE e = "stack"
          BY <2>4, <3>1 DEF Now, FramesOf, Nothing, Keys
    <3>2. CASE e # "stack"
          BY <2>1, <3>2, SameNow DEF Events
    <3> QED
        BY <3>1, <3>2
  <2>6. Copied'
        BY <2>1, <2>5, SilentSees
  <2> QED
      BY <2>1, <2>3, <2>6 DEF Inspected, OneList
<1>4. ASSUME NEW E \in SUBSET Events, NEW keys, Silently(keys),
             \A e \in Events : \A k \in Keys(e) : <<e, k>> \in keys <=> e \in E,
             stacks' = IF "stack" \in E THEN <<>> ELSE stacks,
             varLists' = IF "variable" \in E THEN <<>> ELSE varLists,
             exception' = IF "exception" \in E THEN {} ELSE exception
      PROVE  Inspected'
  <2>1. ASSUME NEW e \in Events, NEW k \in Keys(e)
        PROVE  Now(e, k)' = IF <<e, k>> \in keys THEN Nothing(e) ELSE Now(e, k)
    <3>1. CASE e = "stack"
          BY <1>2, <1>4, <3>1 DEF Now, FramesOf, Nothing
    <3>2. CASE e = "variable"
          BY <1>2, <1>4, <3>2 DEF Now, VariablesOf, Nothing
    <3>3. CASE e = "exception"
          BY <1>4, <3>3 DEF Now, Nothing
    <3> QED
        BY <3>1, <3>2, <3>3 DEF Events
  <2>2. Copied'
        BY <1>4, <2>1, SilentSees
  <2> QED
      BY <1>1, <1>4, <2>2 DEF Inspected, OneList
<1>5. CASE ClearAllStackFrames
  <2>1. \A e \in Events : \A k \in Keys(e) :
            <<e, k>> \in {"stack"} \X DataThreads <=> e \in {"stack"}
        BY DEF Events, Keys
  <2> QED
      BY <1>4, <1>5, <2>1 DEF ClearAllStackFrames, Events
<1>6. CASE ClearVariables
  <2>1. \A e \in Events : \A k \in Keys(e) :
            <<e, k>> \in {"variable"} \X Scopes <=> e \in {"variable"}
        BY DEF Events, Keys
  <2>2. /\ Silently({"variable"} \X Scopes) /\ {"variable"} \in SUBSET Events
        /\ stacks' = IF "stack" \in {"variable"} THEN <<>> ELSE stacks
        /\ varLists' = IF "variable" \in {"variable"} THEN <<>> ELSE varLists
        /\ exception' = IF "exception" \in {"variable"} THEN {} ELSE exception
        BY <1>6 DEF ClearVariables, Events
  <2> QED
      BY <1>4, <2>1, <2>2
<1>7. CASE ResetInspection
  <2>1. \A e \in Events : \A k \in Keys(e) : <<e, k>> \in EveryKey <=> e \in Events
        BY DEF EveryKey
  <2> QED
      BY <1>4, <1>7, <2>1 DEF ResetInspection, Events
<1> QED
    BY <1>3, <1>5, <1>6, <1>7

\* An exception is raised or cleared, and the listeners are told.
LEMMA ExceptionSeen ==
    ASSUME Inspected, (\E x \in Exceptions : SetException(x)) \/ ClearException
    PROVE  Inspected'
<1>1. PICK now \in Raised :
          /\ exception' = now /\ Tell("exception", "it", now)
          /\ UNCHANGED <<stacks, varLists>>
  <2>1. ASSUME NEW x \in Exceptions, SetException(x)
        PROVE  \E now \in Raised :
                   /\ exception' = now /\ Tell("exception", "it", now)
                   /\ UNCHANGED <<stacks, varLists>>
    <3>1. {x} \in Raised
          BY DEF Raised
    <3> QED
        BY <2>1, <3>1 DEF SetException
  <2>2. CASE ClearException
    <3>1. {} \in Raised
          BY DEF Raised
    <3> QED
        BY <2>2, <3>1 DEF ClearException
  <2> QED
      BY <2>1, <2>2
<1>2. "exception" \in Events /\ "it" \in Keys("exception") /\ now \in Values
      BY DEF Events, Keys, Values
<1>3. Now("exception", "it")' = now
      BY <1>1 DEF Now
<1>4. ASSUME NEW e \in Events, NEW k \in Keys(e), <<e, k>> # <<"exception", "it">>
      PROVE  Now(e, k)' = Now(e, k)
      BY <1>1, <1>4, SameNow DEF Events, Keys
<1>5. Copied'
      BY <1>1, <1>2, <1>3, <1>4, NotifySees
<1> QED
    BY <1>1, <1>5 DEF Inspected, OneList

\* A listener comes in front with fresh copies, or the newest of a callback is taken out.
LEMMA RegisteredSeen ==
    ASSUME Inspected, NEW c \in Callbacks, AddListener(c) \/ RemoveListener(c)
    PROVE  Inspected'
<1>1. UNCHANGED <<stacks, varLists, exception, untold>>
      BY DEF AddListener, RemoveListener
<1>2. \A e \in Events : \A k : Now(e, k)' = Now(e, k)
      BY <1>1, SameNow DEF Events
<1> DEFINE After(l) == \A e \in DOMAIN l.copy : \A k \in Keys(e) :
                           <<e, k>> \in untold' \/ l.copy[e][k] = Now(e, k)'
<1>3. ASSUME NEW l \in Told1, Sees(l)
      PROVE  After(l)
  <2>1. DOMAIN l.copy \subseteq Events
        BY WantsEvents DEF Told1
  <2> QED
      BY <1>1, <1>2, <1>3, <2>1 DEF Sees
<1>4. ASSUME listeners' \in Seq(Told1),
             \A i \in DOMAIN listeners' : After(listeners'[i])
      PROVE  Inspected'
  <2>1. \A i \in DOMAIN listeners' : Sees(listeners[i])'
        BY <1>4 DEF Sees, Keys
  <2>2. \A e \in Events : \A k \in Keys(e) : <<e, k>> \in untold' => Now(e, k)' = Nothing(e)
        BY <1>1, <1>2 DEF Inspected, Copied
  <2>3. Copied'
        BY <1>4, <2>1, <2>2 DEF Copied, Nothing, Keys
  <2> QED
      BY <1>1, <2>3 DEF Inspected, OneList
<1>5. /\ Len(listeners) \in Nat /\ DOMAIN listeners = 1 .. Len(listeners)
      /\ listeners \in Seq(Told1)
      /\ \A i \in 1 .. Len(listeners) : After(listeners[i])
  <2>1. /\ Len(listeners) \in Nat /\ DOMAIN listeners = 1 .. Len(listeners)
        /\ listeners \in Seq(Told1)
        /\ \A i \in 1 .. Len(listeners) : listeners[i] \in Told1 /\ Sees(listeners[i])
        BY LenProperties, ElementOfSeq DEF Inspected, Copied
  <2> HIDE DEF After
  <2> QED
      BY <1>3, <2>1
<1>6. CASE AddListener(c)
  <2> DEFINE l == [callback |-> c, copy |-> FirstCopy(c)]
  <2>1. listeners' = <<l>> \o listeners
        BY <1>6 DEF AddListener
  <2>2. FirstCopy(c) = [e \in Wants[c] |-> [k \in Keys(e) |-> Now(e, k)]]
        BY DEF FirstCopy
  <2>3. /\ l.callback = c /\ DOMAIN l.copy = Wants[c] /\ Wants[c] \subseteq Events
        /\ \A e \in Wants[c] : l.copy[e] = [k \in Keys(e) |-> Now(e, k)]
        BY <2>2, WantsEvents
  <2>4. ASSUME NEW e \in Wants[c]
        PROVE  /\ l.copy[e] \in [Keys(e) -> Values]
               /\ \A k \in Keys(e) : l.copy[e][k] = Now(e, k)
    <3>1. l.copy[e] = [k \in Keys(e) |-> Now(e, k)]
          BY <2>3
    <3>2. \A k \in Keys(e) : Now(e, k) \in Values
          BY <2>3, NowTyped
    <3> HIDE DEF l
    <3> QED
        BY <3>1, <3>2
  <2>5. FirstCopy(c) \in Copies
    <3>1. FirstCopy(c) \in [Wants[c] -> UNION {[Keys(e) -> Values] : e \in Events}]
          BY <2>2, <2>3, <2>4
    <3> QED
        BY <2>3, <3>1 DEF Copies
  <2>6. l \in Told1
        BY <2>3, <2>4, <2>5 DEF Told1
  <2> HIDE DEF l
  <2>7. Sees(l)
        BY <2>3, <2>4 DEF Sees
  <2>8. After(l)
        BY <1>3, <2>6, <2>7
  <2> HIDE DEF After
  <2>9. /\ listeners' \in Seq(Told1) /\ DOMAIN listeners' = 1 .. (Len(listeners) + 1)
        /\ listeners'[1] = l
        /\ \A i \in 1 .. Len(listeners) : listeners'[i + 1] = listeners[i]
        BY <1>5, <2>1, <2>6, InFront
  <2>10. ASSUME NEW i \in DOMAIN listeners'
         PROVE  After(listeners'[i])
    <3>1. CASE i = 1
          BY <2>8, <2>9, <3>1
    <3>2. CASE i # 1
      <4>1. i - 1 \in 1 .. Len(listeners) /\ (i - 1) + 1 = i
            BY <1>5, <2>9, <3>2
      <4>2. listeners'[i] = listeners[i - 1]
            BY <2>9, <4>1
      <4> QED
          BY <1>5, <4>1, <4>2
    <3> QED
        BY <3>1, <3>2
  <2> QED
      BY <1>4, <2>9, <2>10
<1>7. CASE RemoveListener(c)
  <2>1. PICK n \in DOMAIN listeners : listeners' = RemoveAt(listeners, n)
        BY <1>7 DEF RemoveListener
  <2>2. /\ listeners' \in Seq(Told1) /\ n \in 1 .. Len(listeners)
        /\ DOMAIN listeners' = 1 .. (Len(listeners) - 1)
        /\ \A k \in DOMAIN listeners' :
               listeners'[k] = IF k < n THEN listeners[k] ELSE listeners[k + 1]
        BY <1>5, <2>1, TakenOut
  <2> HIDE DEF After
  <2>3. ASSUME NEW k \in DOMAIN listeners'
        PROVE  After(listeners'[k])
    <3>1. PICK i \in 1 .. Len(listeners) : listeners'[k] = listeners[i]
          BY <1>5, <2>2
    <3> QED
        BY <1>5, <3>1
  <2> QED
      BY <1>4, <2>2, <2>3
<1> QED
    BY <1>6, <1>7

LEMMA InspectedAtFirst == InspectionInit => Inspected
<1> SUFFICES ASSUME InspectionInit PROVE Inspected
    OBVIOUS
<1>1. /\ <<>> \in Seq([of : DataThreads, items : Stacks]) /\ OneList(<<>>)
      /\ <<>> \in Seq([of : Scopes, items : Numbers])
      /\ {} \in Raised /\ <<>> \in Seq(Told1) /\ DOMAIN <<>> = {}
      BY DEF OneList, Raised
<1> QED
    BY <1>1 DEF InspectionInit, Inspected, Copied

LEMMA InspectedKept == Inspected /\ [InspectionNext]_inspection => Inspected'
<1> SUFFICES ASSUME Inspected, [InspectionNext]_inspection PROVE Inspected'
    OBVIOUS
<1>1. ASSUME NEW c \in Callbacks, AddListener(c) \/ RemoveListener(c)
      PROVE  Inspected'
      BY <1>1, RegisteredSeen
<1>2. ASSUME NEW t \in DataThreads, NEW frames \in FrameLists, NEW memory \in BOOLEAN,
             AdapterSetsFrames(t, frames, memory) \/ StackTraceResponse(t, frames, memory)
      PROVE  Inspected'
      BY <1>2, FramesSeen DEF AdapterSetsFrames, StackTraceResponse
<1>3. ASSUME NEW s \in Scopes, NEW n \in Counts, NEW memory \in BOOLEAN,
             VariablesResponse(s, n, memory)
      PROVE  Inspected'
      BY <1>3, VariablesSeen
<1>4. CASE \/ \E t \in DataThreads : ClearStackFrames(t)
           \/ ClearAllStackFrames \/ ClearVariables \/ ResetInspection
      BY <1>4, ClearedSeen
<1>5. CASE (\E x \in Exceptions : SetException(x)) \/ ClearException
      BY <1>5, ExceptionSeen
<1>6. CASE UNCHANGED <<stacks, varLists, exception, listeners, untold>>
  <2>1. \A e \in Events : \A k \in Keys(e) : Now(e, k)' = Now(e, k)
        BY <1>6, SameNow DEF Events
  <2>2. Copied'
        BY <1>6, <2>1, SameSees
  <2> QED
      BY <1>6, <2>2 DEF Inspected, OneList
<1>7. ASSUME NEW f, SelectFrame(f)
      PROVE  Inspected'
      BY <1>6, <1>7 DEF SelectFrame
<1>8. CASE UNCHANGED inspection
      BY <1>6, <1>8 DEF inspection
<1> QED
    BY <1>1, <1>2, <1>3, <1>4, <1>5, <1>7, <1>8 DEF InspectionNext, InspectionStep

\* A listener has what the model has of each thread, of each scope and of the exception it
\* asked for, except of those that went without a word since it was last told, of which the
\* model has nothing: through failed allocations, lists cleared and made again, a callback
\* registered twice and taken off once (md_state_model_notify and its callers).
THEOREM ListenersAlwaysSee == InspectionSpec => []ListenersSeeData
<1>1. Inspected => ListenersSeeData
  <2> SUFFICES ASSUME Inspected, NEW i \in DOMAIN listeners,
                      NEW e \in DOMAIN listeners[i].copy, NEW k \in Keys(e)
               PROVE  IF <<e, k>> \in untold THEN Now(e, k) = Nothing(e)
                      ELSE listeners[i].copy[e][k] = Now(e, k)
      BY DEF ListenersSeeData
  <2>1. <<e, k>> \in untold \/ listeners[i].copy[e][k] = Now(e, k)
        BY DEF Inspected, Copied, Sees
  <2>2. e \in Events
    <3>1. listeners[i] \in Told1
          BY LenProperties, ElementOfSeq DEF Inspected, Copied
    <3> QED
        BY <3>1, WantsEvents DEF Told1
  <2> QED
      BY <2>1, <2>2 DEF Inspected, Copied
<1> QED
    BY <1>1, InspectedAtFirst, InspectedKept, PTL DEF InspectionSpec

-----------------------------------------------------------------------------
(* The numbers of variables.                                                *)

\* Modulo a word a difference of two ints is itself or, when negative, out of reach.
LEMMA WithinWord ==
    ASSUME NEW d \in Int, -MaxInt <= d, d <= MaxInt
    PROVE  d % Word = IF d >= 0 THEN d ELSE d + Word
<1>1. MaxInt \in Nat /\ Word \in Nat /\ Word = 2 * MaxInt + 2
      BY StateDataAssumption DEF Word
<1>2. ASSUME NEW a \in Nat, NEW w \in Nat, a < w
      PROVE  a % w = a
      BY ONLY <1>2
<1>3. ASSUME NEW a \in Int, NEW w \in Nat, a < 0, 0 <= a + w
      PROVE  a % w = a + w
      BY ONLY <1>3
<1>4. CASE d >= 0
  <2>1. d \in Nat /\ d < Word
        BY <1>1, <1>4
  <2> QED
      BY <1>1, <1>2, <1>4, <2>1
<1>5. CASE d < 0
  <2>1. 0 <= d + Word /\ ~(d >= 0)
        BY <1>1, <1>5
  <2> QED
      BY <1>1, <1>3, <1>5, <2>1
<1> QED
    BY <1>4, <1>5

\* A scope's numbers fit into an int.
Fits(s) == s * 1000 + 999 <= MaxInt

\* The number of a variable of a scope whose numbers fit is the one intended.
LEMMA NumberFits ==
    ASSUME NEW s, NEW place, s \in Nat, place \in 0 .. 999, Fits(s),
           NEW n, n = s * 1000 + place
    PROVE  VariableId(s, place) = n
<1>1. MaxInt \in Nat
      BY StateDataAssumption
<1>2. n \in Int /\ 0 <= n /\ n <= MaxInt
      BY <1>1 DEF Fits
<1>3. ASSUME NEW a \in Nat, NEW w \in Nat, a < w
      PROVE  a % w = a
      BY ONLY <1>3
<1>4. VariableId(s, place) = ((n + MaxInt + 1) % Word) - (MaxInt + 1)
      BY DEF VariableId, Wrapped, IdStride
<1>5. n + MaxInt + 1 \in Nat /\ Word \in Nat /\ n + MaxInt + 1 < Word
      BY <1>1, <1>2 DEF Word
<1>6. (n + MaxInt + 1) % Word = n + MaxInt + 1
      BY <1>3, <1>5
<1> QED
    BY <1>1, <1>2, <1>4, <1>6

\* A number found among those of a scope is the scope's own, and tells its place.
LEMMA NumbersApart ==
    ASSUME NEW r, NEW s, NEW place, NEW p,
           r \in Nat, s \in Nat, place \in 0 .. 999, Fits(r), Fits(s),
           p = (VariableId(s, place) - VariableId(r, 0)) % Word
    PROVE  p \in Nat /\ (p < 1000 => r = s) /\ (r = s => p = place)
<1> DEFINE d == (s * 1000 + place) - r * 1000
<1>1. MaxInt \in Nat
      BY StateDataAssumption
<1>2. PICK x, y : /\ x = s * 1000 + place /\ y = r * 1000 + 0
                  /\ VariableId(s, place) = x /\ VariableId(r, 0) = y
  <2>1. 0 \in 0 .. 999
        OBVIOUS
  <2> QED
      BY <2>1, NumberFits
<1>3. /\ r * 1000 + 999 <= MaxInt /\ s * 1000 + 999 <= MaxInt /\ place \in Int
      /\ 0 <= place /\ place < 1000 /\ r \in Nat /\ s \in Nat
      BY DEF Fits
<1>4. d \in Int /\ -MaxInt <= d /\ d <= MaxInt
      BY ONLY <1>1, <1>3
<1>5. d % Word = IF d >= 0 THEN d ELSE d + Word
  <2> HIDE DEF d
  <2> QED
      BY <1>4, WithinWord
<1>6. Word = 2 * MaxInt + 2
      BY <1>1 DEF Word
<1>7. d < 0 => d + Word >= 1000
      BY ONLY <1>1, <1>3, <1>4, <1>6
<1>8. d >= 0 /\ d < 1000 => r < s + 1 /\ s < r + 1
      BY ONLY <1>3
<1>9. r = s => d = place
      BY ONLY <1>3
<1> HIDE DEF d
<1>10. d % Word < 1000 => r = s
  <2> SUFFICES ASSUME d % Word < 1000 PROVE r = s
      OBVIOUS
  <2>1. d >= 0 /\ d < 1000
        BY <1>1, <1>3, <1>4, <1>5, <1>6, <1>7
  <2> QED
      BY <1>3, <1>8, <2>1
<1>11. r = s => d % Word = place
       BY <1>3, <1>5, <1>9
<1>12. VariableId(s, place) - VariableId(r, 0) = d
  <2>1. x - y = d
        BY <1>2 DEF d
  <2> QED
      BY <1>2, <2>1
<1>13. p = d % Word
       BY <1>12
<1>14. d % Word \in Nat
       BY <1>1, <1>4, <1>5, <1>6
<1> QED
    BY <1>10, <1>11, <1>13, <1>14

LEMMA VariablesTyped ==
    ASSUME Inspected
    PROVE  \A k \in DOMAIN varLists : varLists[k].of \in Nat /\ varLists[k].items \in Nat
<1> DEFINE R == [of : Scopes, items : Numbers]
<1>1. varLists \in Seq(R)
      BY DEF Inspected
<1>2. Scopes \subseteq Nat /\ Numbers \subseteq Nat
      BY StateDataAssumption DEF Numbers
<1>3. \A l \in R : l.of \in Scopes /\ l.items \in Numbers
      OBVIOUS
<1> HIDE DEF R
<1>4. \A k \in DOMAIN varLists : varLists[k] \in R
      BY <1>1, LenProperties, ElementOfSeq
<1> QED
    BY <1>2, <1>3, <1>4

\* While no scope has more than 1000 variables and the numbers of every scope fit into an
\* int, the number given to a variable leads back to it, whatever was asked for, lost or
\* cleared before (md_state_parse_variables_response, md_state_get_variable).
THEOREM VariablesAlwaysFound == InspectionSpec => []VariablesFound
<1>1. Inspected => VariablesFound
  <2> DEFINE D == DOMAIN varLists
             scope(k) == varLists[k].of
             size(k) == varLists[k].items
  <2> SUFFICES ASSUME Inspected, \A k \in D : size(k) <= 1000 /\ Fits(scope(k)),
                      NEW i \in D, NEW place \in {0, size(i) - 1}, size(i) > 0
               PROVE  FindVariable(VariableId(scope(i), place))
                          = [scope |-> scope(i), place |-> place]
      BY DEF VariablesFound, Fits, IdStride
  <2> DEFINE id == VariableId(scope(i), place)
             at(k) == (id - VariableId(scope(k), 0)) % Word
             has(k) == at(k) < size(k)
             leads(k) == has(k) /\ \A j \in 1 .. (k - 1) : ~has(j)
             first == CHOOSE k \in D : leads(k)
  <2>1. FindVariable(id) = [scope |-> scope(first), place |-> at(first)]
        BY DEF FindVariable
  <2>2. \A k \in D : scope(k) \in Nat /\ size(k) \in Nat
        BY VariablesTyped
  <2>3. \A k \in D : \A j \in 1 .. (k - 1) : j \in D /\ j # k
    <3>1. Len(varLists) \in Nat /\ D = 1 .. Len(varLists)
          BY LenProperties DEF Inspected
    <3> QED
        BY <3>1
  <2>4. \A j, k \in D : scope(j) = scope(k) => j = k
        BY DEF Inspected, OneList
  <2> HIDE DEF first, leads, has, scope, size, D
  <2>5. \A k \in D : size(k) \in 0 .. 1000
        BY <2>2
  <2>6. place \in 0 .. 999 /\ place < size(i)
        BY <2>2, <2>5
  <2>7. ASSUME NEW k \in D
        PROVE  (at(k) < size(k) => scope(k) = scope(i)) /\ (scope(k) = scope(i) => at(k) = place)
    <3>1. /\ scope(k) \in Nat /\ scope(i) \in Nat /\ size(k) \in 0 .. 1000
          /\ Fits(scope(k)) /\ Fits(scope(i)) /\ place \in 0 .. 999
          BY <2>2, <2>5, <2>6
    <3>2. at(k) = (VariableId(scope(i), place) - VariableId(scope(k), 0)) % Word
          OBVIOUS
    <3> HIDE DEF at, id
    <3>3. PICK r, s, q : r = scope(k) /\ s = scope(i) /\ q = at(k)
          OBVIOUS
    <3>4. /\ r \in Nat /\ s \in Nat /\ Fits(r) /\ Fits(s)
          /\ place \in 0 .. 999 /\ q = (VariableId(s, place) - VariableId(r, 0)) % Word
          BY <3>1, <3>2, <3>3
    <3>5. q \in Nat /\ (q < 1000 => r = s) /\ (r = s => q = place)
          BY ONLY <3>4, NumbersApart
    <3> QED
        BY <3>1, <3>3, <3>5
  <2> HIDE DEF at, id
  <2>8. has(i) /\ at(i) = place
        BY <2>6, <2>7 DEF has
  <2>9. ASSUME NEW k \in D, has(k)
        PROVE  k = i
        BY <2>4, <2>7, <2>9 DEF has
  <2>10. leads(i)
        BY <2>3, <2>8, <2>9 DEF leads
  <2>11. first = i
    <3>1. \A k \in D : leads(k) => k = i
          BY <2>9 DEF leads
    <3> QED
        BY <2>10, <3>1 DEF first
  <2> QED
      BY <2>1, <2>8, <2>11 DEF id
<1> QED
    BY <1>1, InspectedAtFirst, InspectedKept, PTL DEF InspectionSpec

-----------------------------------------------------------------------------
(* The modules.                                                             *)

\* The count is the length of a list without repetitions, and until too many were announced
\* the list is what was announced, which is not more than fits.
Followed ==
    /\ modules \in Seq(Modules) /\ moduleCount = Len(modules)
    /\ \A i, j \in DOMAIN modules : modules[i] = modules[j] => i = j
    /\ IsFiniteSet(loaded)
    /\ ~crowded => ToSet(modules) = loaded /\ Cardinality(loaded) <= MaxModules

LEMMA DistinctModulesCounted ==
    ASSUME NEW S, NEW list \in Seq(S), \A i, j \in DOMAIN list : list[i] = list[j] => i = j
    PROVE  Len(list) = Cardinality(ToSet(list))
<1> DEFINE n == Len(list)
<1>1. n \in Nat /\ DOMAIN list = 1 .. n
      BY LenProperties
<1>2. list \in [1 .. n -> ToSet(list)]
      BY <1>1 DEF ToSet
<1>3. list \in Surjection(1 .. n, ToSet(list))
      BY <1>1, <1>2 DEF Surjection, ToSet
<1>4. list \in Injection(1 .. n, ToSet(list))
      BY <1>1, <1>2 DEF Injection, IsInjective
<1>5. IsFiniteSet(1 .. n) /\ Cardinality(1 .. n) = n
      BY <1>1, FS_Interval
<1> QED
    BY <1>3, <1>4, <1>5, FS_Surjection

LEMMA LoadedFollowed ==
    ASSUME Followed, NEW m \in Modules, ModuleLoaded(m)
    PROVE  Followed'
<1>1. /\ modules \in Seq(Modules) /\ Len(modules) \in Nat /\ DOMAIN modules = 1 .. Len(modules)
      /\ moduleCount = Len(modules) /\ MaxModules \in Nat
      /\ \A i, j \in DOMAIN modules : modules[i] = modules[j] => i = j
      BY LenProperties, StateDataAssumption DEF Followed
<1>2. /\ loaded' = loaded \cup {m} /\ IsFiniteSet(loaded) /\ IsFiniteSet(loaded')
      /\ Cardinality(loaded) \in Nat /\ Cardinality(loaded') \in Nat
      /\ Cardinality(loaded') = IF m \in loaded THEN Cardinality(loaded) ELSE Cardinality(loaded) + 1
      BY FS_AddElement, FS_CardinalityType DEF Followed, ModuleLoaded
<1>3. Listed(m) <=> m \in ToSet(modules)
      BY DEF Listed, ToSet
<1>4. ~crowded' => /\ ~crowded /\ ToSet(modules) = loaded
                   /\ Cardinality(loaded') <= MaxModules
  <2>1. crowded' = (crowded \/ Cardinality(loaded') > MaxModules)
        BY DEF ModuleLoaded
  <2>2. ~(Cardinality(loaded') > MaxModules) => Cardinality(loaded') <= MaxModules
        BY <1>1, <1>2
  <2> QED
      BY <2>1, <2>2 DEF Followed
<1>5. CASE moduleCount >= MaxModules \/ Listed(m)
  <2>1. modules' = modules /\ moduleCount' = moduleCount
        BY <1>5 DEF ModuleLoaded
  <2>2. ASSUME ~crowded'
        PROVE  m \in loaded
    <3>1. CASE Listed(m)
          BY <1>3, <1>4, <2>2, <3>1
    <3>2. CASE moduleCount >= MaxModules
      <4>1. Len(modules) = Cardinality(loaded)
            BY <1>1, <1>4, <2>2, DistinctModulesCounted
      <4> QED
          BY <1>1, <1>2, <1>4, <2>2, <3>2, <4>1
    <3> QED
        BY <1>5, <3>1, <3>2
  <2>3. ~crowded' => ToSet(modules)' = loaded'
        BY <1>2, <1>4, <2>1, <2>2 DEF ToSet
  <2> QED
      BY <1>1, <1>2, <1>4, <2>1, <2>3 DEF Followed
<1>6. CASE ~(moduleCount >= MaxModules \/ Listed(m))
  <2>1. modules' = <<m>> \o modules /\ moduleCount' = moduleCount + 1
        BY <1>6 DEF ModuleLoaded
  <2>2. /\ modules' \in Seq(Modules) /\ Len(modules') = Len(modules) + 1
        /\ DOMAIN modules' = 1 .. (Len(modules) + 1)
        /\ modules'[1] = m /\ \A i \in 1 .. Len(modules) : modules'[i + 1] = modules[i]
        BY <1>1, <2>1, InFront
  <2>3. \A k \in DOMAIN modules' : k = 1 \/ /\ k - 1 \in DOMAIN modules
                                            /\ modules'[k] = modules[k - 1]
    <3>1. \A k \in DOMAIN modules' : k = 1 \/ (k - 1 \in 1 .. Len(modules) /\ (k - 1) + 1 = k)
          BY <1>1, <2>2
    <3> QED
        BY <1>1, <2>2, <3>1
  <2>4. \A i \in DOMAIN modules : modules[i] # m
        BY <1>6 DEF Listed
  <2>5. ASSUME NEW j \in DOMAIN modules', NEW k \in DOMAIN modules', modules'[j] = modules'[k]
        PROVE  j = k
    <3>1. CASE j = 1 \/ k = 1
          BY <2>2, <2>3, <2>4, <2>5, <3>1
    <3>2. CASE j # 1 /\ k # 1
      <4>1. j - 1 = k - 1
            BY <1>1, <2>3, <2>5, <3>2
      <4> QED
          BY <1>1, <2>2, <4>1
    <3> QED
        BY <3>1, <3>2
  <2>6. ToSet(modules') = ToSet(modules) \cup {m}
    <3>1. 1 \in DOMAIN modules' /\ \A i \in DOMAIN modules :
              i + 1 \in DOMAIN modules' /\ modules'[i + 1] = modules[i]
          BY <1>1, <2>2
    <3>2. ToSet(modules') \subseteq ToSet(modules) \cup {m}
          BY <2>2, <2>3 DEF ToSet
    <3>3. m \in ToSet(modules')
          BY <2>2, <3>1 DEF ToSet
    <3>4. ASSUME NEW i \in DOMAIN modules
          PROVE  modules[i] \in ToSet(modules')
      <4>1. i + 1 \in DOMAIN modules' /\ modules'[i + 1] = modules[i]
            BY <3>1, <3>4
      <4> QED
          BY <4>1, Zenon DEF ToSet
    <3>5. ToSet(modules) \subseteq ToSet(modules')
          BY <3>4 DEF ToSet
    <3> QED
        BY <3>2, <3>3, <3>5
  <2>7. ~crowded' => ToSet(modules') = loaded'
        BY <1>2, <1>4, <2>6
  <2> QED
      BY <1>1, <1>2, <1>4, <2>1, <2>2, <2>5, <2>7 DEF Followed
<1> QED
    BY <1>5, <1>6

LEMMA RemovedFollowed ==
    ASSUME Followed, NEW m \in Modules, ModuleRemoved(m)
    PROVE  Followed'
<1>1. /\ modules \in Seq(Modules) /\ Len(modules) \in Nat /\ DOMAIN modules = 1 .. Len(modules)
      /\ moduleCount = Len(modules) /\ MaxModules \in Nat
      /\ \A i, j \in DOMAIN modules : modules[i] = modules[j] => i = j
      BY LenProperties, StateDataAssumption DEF Followed
<1>2. /\ loaded' = loaded \ {m} /\ IsFiniteSet(loaded')
      /\ Cardinality(loaded) \in Nat /\ Cardinality(loaded') \in Nat
      /\ Cardinality(loaded') <= Cardinality(loaded)
      BY FS_Subset, FS_CardinalityType DEF Followed, ModuleRemoved
<1>3. ~crowded' => ToSet(modules) = loaded /\ Cardinality(loaded') <= MaxModules
      BY <1>1, <1>2 DEF Followed, ModuleRemoved
<1>4. CASE ~Listed(m) /\ UNCHANGED <<modules, moduleCount>>
  <2>1. m \notin ToSet(modules)
        BY <1>4 DEF Listed, ToSet
  <2>2. ~crowded' => ToSet(modules') = loaded'
        BY <1>2, <1>3, <1>4, <2>1
  <2> QED
      BY <1>1, <1>2, <1>3, <1>4, <2>2 DEF Followed
<1>5. ASSUME NEW n \in DOMAIN modules, modules[n] = m, modules' = RemoveAt(modules, n),
             moduleCount' = moduleCount - 1
      PROVE  Followed'
  <2>0. modules \in Seq(Modules) /\ n \in DOMAIN modules /\ modules' = RemoveAt(modules, n)
        BY <1>1, <1>5
  <2>1. /\ modules' \in Seq(Modules) /\ n \in 1 .. Len(modules)
        /\ Len(modules') = Len(modules) - 1 /\ DOMAIN modules' = 1 .. (Len(modules) - 1)
        /\ \A k \in DOMAIN modules' : modules'[k] = IF k < n THEN modules[k] ELSE modules[k + 1]
        BY <2>0, TakenOut
  <2> DEFINE old(k) == IF k < n THEN k ELSE k + 1
             new(i) == IF i < n THEN i ELSE i - 1
  <2>2. /\ \A k \in DOMAIN modules' :
               old(k) \in DOMAIN modules /\ old(k) # n /\ modules'[k] = modules[old(k)]
        /\ \A j, k \in DOMAIN modules' : old(j) = old(k) => j = k
        BY <1>1, <2>1
  <2>3. \A i \in DOMAIN modules : i # n => new(i) \in DOMAIN modules' /\ old(new(i)) = i
        BY <1>1, <2>1
  <2> HIDE DEF old, new
  <2>4. \A j, k \in DOMAIN modules' : modules'[j] = modules'[k] => j = k
        BY <1>1, <2>2
  <2>5. \A i \in DOMAIN modules : i # n => \E k \in DOMAIN modules' : modules'[k] = modules[i]
        BY <2>2, <2>3
  <2>6. \A k \in DOMAIN modules' : modules'[k] # m
        BY <1>1, <1>5, <2>2
  <2>7. ToSet(modules') = ToSet(modules) \ {m}
        BY <1>5, <2>2, <2>5, <2>6 DEF ToSet
  <2>8. ~crowded' => ToSet(modules') = loaded'
        BY <1>2, <1>3, <2>7
  <2> QED
      BY <1>1, <1>2, <1>3, <1>5, <2>1, <2>4, <2>8 DEF Followed
<1> QED
    BY <1>4, <1>5 DEF ModuleRemoved

LEMMA FollowedAtFirst == ModuleInit => Followed
<1> SUFFICES ASSUME modules = <<>>, moduleCount = 0, loaded = {}
             PROVE  Followed
    BY DEF ModuleInit
<1>1. IsFiniteSet({}) /\ Cardinality({}) = 0 /\ MaxModules \in Nat
      BY FS_EmptySet, StateDataAssumption
<1>2. modules \in Seq(Modules) /\ Len(modules) = 0 /\ DOMAIN modules = {} /\ ToSet(modules) = {}
      BY DEF ToSet
<1> QED
    BY <1>1, <1>2 DEF Followed

\* Unless the debugger once had more modules than fit, the list holds exactly those it has
\* announced and not removed since the reset (md_state_handle_module_event).
THEOREM ModulesAlwaysFollow == ModuleSpec => []ModulesFollow
<1>1. Followed /\ [ModuleNext]_moduleVars => Followed'
  <2> SUFFICES ASSUME Followed, [ModuleNext]_moduleVars PROVE Followed'
      OBVIOUS
  <2>1. CASE ResetModules
    <3>1. /\ modules' = <<>> /\ moduleCount' = 0 /\ loaded' = {}
          /\ IsFiniteSet({}) /\ Cardinality({}) = 0 /\ MaxModules \in Nat
          BY <2>1, FS_EmptySet, StateDataAssumption DEF ResetModules
    <3>2. <<>> \in Seq(Modules) /\ Len(<<>>) = 0 /\ DOMAIN <<>> = {} /\ ToSet(<<>>) = {}
          BY DEF ToSet
    <3> QED
        BY <3>1, <3>2 DEF Followed
  <2>2. CASE UNCHANGED moduleVars
        BY <2>2 DEF Followed, moduleVars, ToSet
  <2> QED
      BY <2>1, <2>2, LoadedFollowed, RemovedFollowed DEF ModuleNext, ModuleStep
<1>2. Followed => ModulesFollow
      BY DEF Followed, ModulesFollow
<1> QED
    BY <1>1, <1>2, FollowedAtFirst, PTL DEF ModuleSpec

-----------------------------------------------------------------------------
(* Sums of hits: the recursive function that adds them up exists, and what   *)
(* it gives is shown by a least counterexample.                              *)

LEMMA Least ==
    ASSUME NEW T \in SUBSET Nat, T # {}
    PROVE  \E m \in T : \A k \in T : ~ k < m
<1>1. PICK m \in T : \A k \in T : ~(<<k, m>> \in OpToRel(<, Nat))
      BY NatLessThanWellFounded, WFMin, Zenon
<1>2. \A k \in T : ~ k < m
      BY <1>1, Zenon DEF OpToRel
<1> QED
    BY <1>2

\* f gives the hits of the first n entries, for each n up to m.
Sums(f, list, m) == f = [n \in 0 .. m |-> IF n = 0 THEN 0 ELSE f[n - 1] + list[n].hits]

LEMMA SumsExist ==
    ASSUME NEW list \in Seq(Breakpoints)
    PROVE  \E f : Sums(f, list, Len(list))
<1> DEFINE T == {m \in 0 .. Len(list) : ~ \E f : Sums(f, list, m)}
<1>1. Len(list) \in Nat
      OBVIOUS
<1>2. SUFFICES ASSUME T # {} PROVE FALSE
      BY <1>1
<1>3. PICK m \in T : \A k \in T : ~ k < m
  <2>1. T \in SUBSET Nat
        BY <1>1
  <2> QED
      BY <2>1, <1>2, Least
<1>4. m \in 0 .. Len(list) /\ ~ \E f : Sums(f, list, m)
      OBVIOUS
<1>5. m # 0
  <2>1. Sums([n \in 0 .. 0 |-> 0], list, 0)
        BY DEF Sums
  <2> QED
      BY <2>1, <1>4
<1>6. m - 1 \in 0 .. Len(list) /\ m - 1 < m
      BY <1>1, <1>4, <1>5
<1>7. PICK f : Sums(f, list, m - 1)
      BY <1>3, <1>6
<1> DEFINE g == [n \in 0 .. m |-> IF n = m THEN f[m - 1] + list[m].hits ELSE f[n]]
<1>8. \A n \in 0 .. m : g[n] = IF n = 0 THEN 0 ELSE g[n - 1] + list[n].hits
  <2> TAKE n \in 0 .. m
  <2>1. CASE n = m
    <3>1. g[n] = f[m - 1] + list[m].hits /\ g[m - 1] = f[m - 1]
          BY <2>1, <1>4, <1>6
    <3> QED
        BY <3>1, <2>1, <1>5
  <2>2. CASE n # m
    <3>1. n \in 0 .. m - 1 /\ g[n] = f[n]
          BY <2>2, <1>4
    <3>2. f[n] = IF n = 0 THEN 0 ELSE f[n - 1] + list[n].hits
          BY <3>1, <1>7 DEF Sums
    <3>3. n # 0 => g[n - 1] = f[n - 1]
          BY <3>1, <1>4
    <3> QED
        BY <3>1, <3>2, <3>3
  <2> QED
      BY <2>1, <2>2
<1>9. Sums(g, list, m)
      BY <1>8 DEF Sums
<1> QED
    BY <1>9, <1>4

\* f gives the hits of the first n entries of the list, and at its end those of all.
Adds(f, list) ==
    /\ f[0] = 0 /\ \A n \in 1 .. Len(list) : f[n] = f[n - 1] + list[n].hits
    /\ \A n \in 0 .. Len(list) : f[n] \in Nat
    /\ HitsOf(list) = f[Len(list)]

LEMMA HitsAdd ==
    ASSUME NEW list \in Seq(Breakpoints)
    PROVE  \E f : Adds(f, list)
<1> DEFINE f == CHOOSE f : f = [n \in 0 .. Len(list) |->
                    IF n = 0 THEN 0 ELSE f[n - 1] + list[n].hits]
<1>1. HitsOf(list) = f[Len(list)]
      BY DEF HitsOf
<1>2. Sums(f, list, Len(list))
      BY SumsExist DEF Sums
<1> HIDE DEF f
<1>3. Len(list) \in Nat /\ \A n \in 1 .. Len(list) : list[n].hits \in Nat
  <2>1. \A n \in 1 .. Len(list) : list[n] \in Breakpoints
        OBVIOUS
  <2> QED
      BY <2>1 DEF Breakpoints
<1>4. f[0] = 0 /\ \A n \in 1 .. Len(list) : f[n] = f[n - 1] + list[n].hits
      BY <1>2, <1>3 DEF Sums
<1> DEFINE T == {m \in 0 .. Len(list) : f[m] \notin Nat}
<1>5. T = {}
  <2> SUFFICES ASSUME T # {} PROVE FALSE
      OBVIOUS
  <2>1. T \in SUBSET Nat
        BY <1>3
  <2>2. PICK m \in T : \A k \in T : ~ k < m
        BY <2>1, Least
  <2>3. m \in 1 .. Len(list) /\ m - 1 \in 0 .. Len(list) /\ m - 1 < m
        BY <1>3, <1>4
  <2>4. f[m - 1] \in Nat
        BY <2>2, <2>3
  <2>5. f[m] = f[m - 1] + list[m].hits /\ list[m].hits \in Nat
        BY <1>3, <1>4, <2>3
  <2>6. f[m] \in Nat
        BY ONLY <2>4, <2>5
  <2>7. f[m] \notin Nat
        OBVIOUS
  <2> QED
      BY ONLY <2>6, <2>7
<1> QED
    BY <1>1, <1>4, <1>5 DEF Adds

LEMMA NoHits == HitsOf(<<>>) = 0
<1>1. <<>> \in Seq(Breakpoints) /\ Len(<<>>) = 0
      OBVIOUS
<1>2. PICK f : Adds(f, <<>>)
      BY <1>1, HitsAdd
<1> QED
    BY <1>1, <1>2 DEF Adds

\* As many entries, none with more hits than before but those in extra, which have one more.
LEMMA HitsGrow ==
    ASSUME NEW s \in Seq(Breakpoints), NEW t \in Seq(Breakpoints), Len(t) = Len(s),
           NEW extra \in SUBSET (1 .. Len(s)),
           \A n \in 1 .. Len(s) :
               t[n].hits <= s[n].hits + (IF n \in extra THEN 1 ELSE 0)
    PROVE  HitsOf(t) <= HitsOf(s) + Cardinality(extra)
<1>1. PICK f : Adds(f, s)
      BY HitsAdd
<1>2. PICK g : Adds(g, t)
      BY HitsAdd
<1>3. /\ Len(s) \in Nat
      /\ \A n \in 1 .. Len(s) : s[n].hits \in Nat /\ t[n].hits \in Nat
  <2>1. \A n \in 1 .. Len(s) : s[n] \in Breakpoints /\ t[n] \in Breakpoints
        OBVIOUS
  <2> QED
      BY <2>1 DEF Breakpoints
<1> DEFINE upTo(n) == extra \cap (1 .. n)
           T == {n \in 0 .. Len(s) : ~ g[n] <= f[n] + Cardinality(upTo(n))}
<1>4. \A n \in 0 .. Len(s) : IsFiniteSet(upTo(n)) /\ Cardinality(upTo(n)) \in Nat
  <2> TAKE n \in 0 .. Len(s)
  <2>1. IsFiniteSet(1 .. n)
        BY <1>3, FS_Interval
  <2>2. upTo(n) \in SUBSET (1 .. n)
        OBVIOUS
  <2> QED
      BY <2>1, <2>2, FS_Subset, FS_CardinalityType
<1>5. \A n \in 1 .. Len(s) :
          Cardinality(upTo(n)) = Cardinality(upTo(n - 1)) + (IF n \in extra THEN 1 ELSE 0)
  <2> TAKE n \in 1 .. Len(s)
  <2>1. n - 1 \in 0 .. Len(s) /\ n \notin upTo(n - 1)
        BY <1>3
  <2>2. upTo(n) = IF n \in extra THEN upTo(n - 1) \cup {n} ELSE upTo(n - 1)
        BY <1>3
  <2>3. IsFiniteSet(upTo(n - 1)) /\ Cardinality(upTo(n - 1)) \in Nat
        BY <1>4, <2>1
  <2>4. Cardinality(upTo(n - 1) \cup {n}) = Cardinality(upTo(n - 1)) + 1
        BY <2>1, <2>3, FS_AddElement
  <2> HIDE DEF upTo
  <2> QED
      BY <2>2, <2>3, <2>4
<1>6. T = {}
  <2> SUFFICES ASSUME T # {} PROVE FALSE
      OBVIOUS
  <2>1. T \in SUBSET Nat
        BY <1>3
  <2>2. PICK m \in T : \A k \in T : ~ k < m
        BY <2>1, Least
  <2>3. m \in 0 .. Len(s) /\ ~ g[m] <= f[m] + Cardinality(upTo(m))
        OBVIOUS
  <2>4. m # 0
    <3>1. f[0] = 0 /\ g[0] = 0 /\ 0 \in 0 .. Len(s)
          BY <1>1, <1>2, <1>3 DEF Adds
    <3>2. Cardinality(upTo(0)) \in Nat
          BY <1>4, <3>1
    <3> HIDE DEF upTo
    <3> QED
        BY <2>3, <3>1, <3>2
  <2>5. m \in 1 .. Len(s) /\ m - 1 \in 0 .. Len(s) /\ m - 1 < m
        BY <1>3, <2>3, <2>4
  <2>6. g[m - 1] <= f[m - 1] + Cardinality(upTo(m - 1))
        BY <2>2, <2>5
  <2>7. /\ f[m] = f[m - 1] + s[m].hits /\ g[m] = g[m - 1] + t[m].hits
        /\ f[m - 1] \in Nat /\ g[m - 1] \in Nat
        BY <1>1, <1>2, <2>5 DEF Adds
  <2>8. /\ Cardinality(upTo(m)) = Cardinality(upTo(m - 1)) + (IF m \in extra THEN 1 ELSE 0)
        /\ Cardinality(upTo(m - 1)) \in Nat /\ Cardinality(upTo(m)) \in Nat
        BY <1>4, <1>5, <2>5
  <2>9. /\ s[m].hits \in Nat /\ t[m].hits \in Nat
        /\ t[m].hits <= s[m].hits + (IF m \in extra THEN 1 ELSE 0)
        BY <1>3, <2>5
  <2> HIDE DEF upTo
  <2>10. PICK x, y, p, q, c \in Nat :
             /\ x = f[m - 1] /\ y = g[m - 1] /\ p = s[m].hits /\ q = t[m].hits
             /\ c = Cardinality(upTo(m - 1))
        BY <2>7, <2>8, <2>9, Zenon
  <2>11. f[m] = x + p /\ g[m] = y + q /\ y <= x + c
        BY <2>6, <2>7, <2>10, Zenon
  <2>12. CASE m \in extra
    <3>1. Cardinality(upTo(m)) = c + 1 /\ q <= p + 1
          BY <2>8, <2>9, <2>10, <2>12, Zenon
    <3> QED
        BY ONLY <2>3, <2>11, <3>1
  <2>13. CASE m \notin extra
    <3>1. Cardinality(upTo(m)) = c + 0 /\ q <= p + 0
          BY <2>8, <2>9, <2>10, <2>13, Zenon
    <3> QED
        BY ONLY <2>3, <2>11, <3>1
  <2> QED
      BY ONLY <2>12, <2>13
<1>7. upTo(Len(s)) = extra
  <2> HIDE DEF T
  <2> QED
      OBVIOUS
<1> HIDE DEF upTo
<1>8. g[Len(s)] <= f[Len(s)] + Cardinality(upTo(Len(s)))
  <2>1. Len(s) \in 0 .. Len(s)
        BY ONLY <1>3
  <2> QED
      BY <1>6, <2>1
<1> QED
    BY <1>1, <1>2, <1>7, <1>8 DEF Adds

\* t is s with one more entry, the i-th.
LEMMA HitsOneMore ==
    ASSUME NEW s \in Seq(Breakpoints), NEW t \in Seq(Breakpoints), Len(t) = Len(s) + 1,
           NEW i \in 1 .. Len(t),
           \A k \in 1 .. Len(s) : s[k] = IF k < i THEN t[k] ELSE t[k + 1]
    PROVE  HitsOf(t) = HitsOf(s) + t[i].hits
<1>1. PICK f : Adds(f, s)
      BY HitsAdd
<1>2. PICK g : Adds(g, t)
      BY HitsAdd
<1>3. /\ Len(s) \in Nat /\ i \in Nat
      /\ \A n \in 1 .. Len(t) : t[n].hits \in Nat
  <2>1. \A n \in 1 .. Len(t) : t[n] \in Breakpoints
        OBVIOUS
  <2> QED
      BY <2>1 DEF Breakpoints
<1> DEFINE Agree(n) == /\ n < i => g[n] = f[n]
                       /\ n >= i - 1 => g[n + 1] = f[n] + t[i].hits
           T == {n \in 0 .. Len(s) : ~Agree(n)}
<1>4. T = {}
  <2> SUFFICES ASSUME T # {} PROVE FALSE
      OBVIOUS
  <2>1. T \in SUBSET Nat
        BY <1>3
  <2>2. PICK m \in T : \A k \in T : ~ k < m
        BY <2>1, Least
  <2>3. m \in 0 .. Len(s) /\ ~Agree(m)
        OBVIOUS
  <2>4. Agree(0)
    <3>1. f[0] = 0 /\ g[0] = 0 /\ 1 \in 1 .. Len(t) /\ g[1] = g[0] + t[1].hits /\ t[1].hits \in Nat
          BY <1>1, <1>2, <1>3 DEF Adds
    <3> QED
        BY <1>3, <3>1
  <2>5. m \in 1 .. Len(s) /\ m - 1 \in 0 .. Len(s) /\ m - 1 < m /\ m \in 1 .. Len(t) /\ m + 1 \in 1 .. Len(t)
        BY <1>3, <2>3, <2>4
  <2>6. Agree(m - 1)
        BY <2>2, <2>5
  <2>7. /\ f[m] = f[m - 1] + s[m].hits /\ g[m] = g[m - 1] + t[m].hits
        /\ g[m + 1] = g[m] + t[m + 1].hits
        /\ f[m - 1] \in Nat /\ g[m - 1] \in Nat /\ g[m] \in Nat
    <3>1. (m + 1) - 1 = m /\ m - 1 \in 0 .. Len(t) /\ m \in 0 .. Len(t)
      <4>1. m \in 1 .. Len(t) /\ Len(t) = Len(s) + 1 /\ Len(s) \in Nat
            BY <1>3, <2>5, Zenon
      <4> QED
          BY ONLY <4>1
    <3> QED
        BY <1>1, <1>2, <2>5, <3>1 DEF Adds
  <2>8. /\ s[m] = IF m < i THEN t[m] ELSE t[m + 1]
        /\ t[m].hits \in Nat /\ t[m + 1].hits \in Nat /\ t[i].hits \in Nat
        BY <1>3, <2>5
  <2>9. CASE m < i
    <3>1. m - 1 < i /\ (m >= i - 1 => m + 1 = i)
          BY <1>3, <2>5, <2>9
    <3>2. g[m] = f[m]
          BY <2>6, <2>7, <2>8, <2>9, <3>1
    <3>3. m >= i - 1 => g[m + 1] = f[m] + t[i].hits
          BY <2>7, <3>1, <3>2
    <3> QED
        BY <2>3, <3>2, <3>3
  <2>10. CASE m >= i
    <3>1. m - 1 >= i - 1 /\ (m - 1) + 1 = m /\ ~ m < i
          BY <1>3, <2>5, <2>10
    <3>2. g[m] = f[m - 1] + t[i].hits /\ s[m].hits = t[m + 1].hits
          BY <2>6, <2>8, <3>1
    <3>3. g[m + 1] = f[m] + t[i].hits
      <4>1. PICK x, p, q \in Nat : x = f[m - 1] /\ p = s[m].hits /\ q = t[i].hits
            BY <2>7, <2>8, <3>2, Zenon
      <4>2. g[m + 1] = (x + q) + p /\ f[m] = x + p
            BY <2>7, <3>2, <4>1, Zenon
      <4>3. g[m + 1] = f[m] + q
            BY ONLY <4>2
      <4> QED
          BY <4>1, <4>3, Zenon
    <3> QED
        BY <2>3, <3>1, <3>3
  <2> QED
      BY <1>3, <2>5, <2>9, <2>10
<1>5. Len(s) \in 0 .. Len(s) /\ Len(s) >= i - 1
      BY <1>3
<1>6. g[Len(t)] = f[Len(s)] + t[i].hits
      BY <1>4, <1>5
<1> QED
    BY <1>1, <1>2, <1>6 DEF Adds

-----------------------------------------------------------------------------
(* The hits.                                                                *)

\* The hits entry e has, or those a kept copy of it would give it.
May(e, h) == IF e.id = h.id /\ e.hits < h.hits THEN h.hits ELSE e.hits
Claimed(list, h) == [i \in 1 .. Len(list) |-> [list[i] EXCEPT !.hits = May(list[i], h)]]

\* What the entries count, and could come to count, was counted.
Accounted == hits \in Nat /\ held.id < nextId /\ HitsOf(Claimed(bps, held)) <= hits

LEMMA HitsTyped ==
    ASSUME NEW list \in Seq(Breakpoints)
    PROVE  HitsOf(list) \in Nat
<1>1. PICK f : Adds(f, list)
      BY HitsAdd
<1>2. Len(list) \in 0 .. Len(list)
  <2>1. Len(list) \in Nat
        BY LenProperties
  <2> QED
      BY ONLY <2>1
<1> QED
    BY <1>1, <1>2 DEF Adds

LEMMA ClaimedTyped ==
    ASSUME NEW list \in Seq(Breakpoints), NEW h \in Breakpoints
    PROVE  /\ Claimed(list, h) \in Seq(Breakpoints)
           /\ Len(list) \in Nat /\ DOMAIN list = 1 .. Len(list)
           /\ Len(Claimed(list, h)) = Len(list)
           /\ \A n \in 1 .. Len(list) :
                 /\ list[n] \in Breakpoints
                 /\ Claimed(list, h)[n] = [list[n] EXCEPT !.hits = May(list[n], h)]
                 /\ Claimed(list, h)[n].hits = May(list[n], h)
                 /\ May(list[n], h) \in Nat /\ list[n].hits <= May(list[n], h)
<1>1. /\ Len(list) \in Nat /\ DOMAIN list = 1 .. Len(list)
      /\ \A n \in 1 .. Len(list) : list[n] \in Breakpoints
      BY LenProperties, ElementOfSeq
<1>2. \A n \in 1 .. Len(list) : May(list[n], h) \in Nat /\ list[n].hits <= May(list[n], h)
      BY <1>1 DEF Breakpoints, May
<1> DEFINE e(n) == [list[n] EXCEPT !.hits = May(list[n], h)]
<1>3. \A n \in 1 .. Len(list) : e(n) \in Breakpoints /\ e(n).hits = May(list[n], h)
      BY <1>1, <1>2 DEF Breakpoints
<1>4. Claimed(list, h) = [n \in 1 .. Len(list) |-> e(n)]
      BY DEF Claimed
<1> HIDE DEF e
<1>5. Claimed(list, h) \in Seq(Breakpoints) /\ Len(Claimed(list, h)) = Len(list)
      BY <1>1, <1>3, <1>4
<1>6. \A n \in 1 .. Len(list) : Claimed(list, h)[n] = e(n)
      BY <1>4
<1> QED
    BY <1>1, <1>2, <1>3, <1>5, <1>6 DEF e

\* No entry may come to count more than before, but those in extra one more.
LEMMA ClaimsGrow ==
    ASSUME NEW s \in Seq(Breakpoints), NEW t \in Seq(Breakpoints), Len(t) = Len(s),
           NEW h \in Breakpoints, NEW k \in Breakpoints, NEW extra \in SUBSET (1 .. Len(s)),
           \A n \in 1 .. Len(s) :
               May(t[n], k) <= May(s[n], h) + (IF n \in extra THEN 1 ELSE 0)
    PROVE  HitsOf(Claimed(t, k)) <= HitsOf(Claimed(s, h)) + Cardinality(extra)
<1>1. /\ Claimed(s, h) \in Seq(Breakpoints) /\ Len(Claimed(s, h)) = Len(s)
      /\ \A n \in 1 .. Len(s) : Claimed(s, h)[n].hits = May(s[n], h)
      BY ClaimedTyped, Zenon
<1>2. /\ Claimed(t, k) \in Seq(Breakpoints) /\ Len(Claimed(t, k)) = Len(s)
      /\ \A n \in 1 .. Len(s) : Claimed(t, k)[n].hits = May(t[n], k)
      BY ClaimedTyped, Zenon
<1>3. \A n \in 1 .. Len(s) : Claimed(t, k)[n].hits
          <= Claimed(s, h)[n].hits + (IF n \in extra THEN 1 ELSE 0)
      BY <1>1, <1>2, Zenon
<1> QED
    BY <1>1, <1>2, <1>3, HitsGrow

LEMMA ClaimsKept ==
    ASSUME Numbered, Accounted,
           bps' \in Seq(Breakpoints), Len(bps') = Len(bps), held' \in Breakpoints,
           \A n \in 1 .. Len(bps) : May(bps'[n], held') <= May(bps[n], held),
           held'.id < nextId', hits' = hits
    PROVE  Accounted'
<1>1. bps \in Seq(Breakpoints) /\ held \in Breakpoints /\ {} \in SUBSET (1 .. Len(bps))
      BY DEF Numbered
<1>2. \A n \in 1 .. Len(bps) :
          May(bps'[n], held') <= May(bps[n], held) + (IF n \in {} THEN 1 ELSE 0)
  <2> TAKE n \in 1 .. Len(bps)
  <2>1. May(bps[n], held) \in Nat /\ May(bps'[n], held') <= May(bps[n], held)
        BY <1>1, ClaimedTyped
  <2> QED
      BY <2>1
<1>3. HitsOf(Claimed(bps', held')) <= HitsOf(Claimed(bps, held)) + Cardinality({})
      BY <1>1, <1>2, ClaimsGrow
<1>4. HitsOf(Claimed(bps', held')) \in Nat /\ HitsOf(Claimed(bps, held)) \in Nat
      BY <1>1, ClaimedTyped, HitsTyped
<1>5. hits \in Nat /\ HitsOf(Claimed(bps, held)) <= hits /\ Cardinality({}) = 0
      BY FS_EmptySet DEF Accounted
<1>6. HitsOf(Claimed(bps', held')) <= hits
      BY ONLY <1>3, <1>4, <1>5
<1> QED
    BY <1>5, <1>6 DEF Accounted

LEMMA UpdateAccounted ==
    ASSUME Numbered, Accounted, NEW b \in Breakpoints, Update(b),
           \A i \in DOMAIN bps : bps[i].id = b.id => b.hits <= May(bps[i], held)
    PROVE  Accounted'
<1>1. Len(bps) \in Nat /\ DOMAIN bps = 1 .. Len(bps)
      /\ \A i \in DOMAIN bps : bps[i] \in Breakpoints
      BY ListTyped
<1>2. bps' = [i \in DOMAIN bps |-> IF bps[i].id = b.id THEN b ELSE bps[i]]
      /\ UNCHANGED <<nextId, held, hits>>
      BY DEF Update
<1>3. held \in Breakpoints /\ held' = held
      BY <1>2 DEF Numbered
<1>4. bps' \in Seq(Breakpoints) /\ Len(bps') = Len(bps)
      BY <1>1, <1>2
<1>5. \A n \in 1 .. Len(bps) : May(bps'[n], held) <= May(bps[n], held)
  <2> TAKE n \in 1 .. Len(bps)
  <2>1. CASE bps[n].id = b.id
    <3>1. bps'[n] = b /\ b.hits <= May(bps[n], held)
          BY <1>1, <1>2, <2>1
    <3> QED
        BY <1>1, <1>3, <2>1, <3>1 DEF May, Breakpoints
  <2>2. CASE bps[n].id # b.id
    <3>1. bps'[n] = bps[n]
          BY <1>1, <1>2, <2>2
    <3> QED
        BY <1>1, <1>3, <3>1 DEF May, Breakpoints
  <2> QED
      BY <2>1, <2>2
<1>6. held'.id < nextId' /\ hits' = hits
      BY <1>2 DEF Accounted
<1> QED
    BY <1>3, <1>4, <1>5, <1>6, ClaimsKept

LEMMA AddAccounted ==
    ASSUME Numbered, Accounted, NEW b \in Breakpoints, b.hits = 0, Add(b)
    PROVE  Accounted'
<1> DEFINE e == [b EXCEPT !.id = nextId]
<1>1. /\ e \in Breakpoints /\ e.id = nextId /\ e.hits = 0 /\ nextId \in Nat
      /\ held \in Breakpoints /\ held.id < nextId
      BY DEF Numbered, Breakpoints, Accounted
<1>2. May(e, held) = 0
  <2>1. held.id # e.id
        BY <1>1 DEF Breakpoints
  <2> QED
      BY <1>1, <2>1 DEF May
<1>3. held' = held /\ hits' = hits
      BY DEF Add
<1>4. CASE UNCHANGED <<bps, nextId>>
      BY <1>3, <1>4 DEF Accounted
<1>5. CASE bps' = <<e>> \o bps /\ nextId' = nextId + 1
  <2> HIDE DEF e
  <2>1. /\ bps \in Seq(Breakpoints) /\ bps' \in Seq(Breakpoints) /\ Len(bps') = Len(bps) + 1
        /\ bps'[1] = e /\ Len(bps) \in Nat
        /\ \A i \in 1 .. Len(bps) : bps'[i + 1] = bps[i]
        BY <1>1, <1>5, InFront DEF Numbered
  <2> DEFINE s == Claimed(bps, held)
             t == Claimed(bps', held)
  <2>2. /\ s \in Seq(Breakpoints) /\ t \in Seq(Breakpoints)
        /\ Len(s) = Len(bps) /\ Len(t) = Len(s) + 1 /\ 1 \in 1 .. Len(t)
        /\ t[1].hits = 0
    <3>1. /\ s \in Seq(Breakpoints) /\ t \in Seq(Breakpoints)
          /\ Len(s) = Len(bps) /\ Len(t) = Len(bps')
          BY <1>1, <2>1, ClaimedTyped
    <3>2. 1 \in 1 .. Len(bps')
          BY <2>1
    <3>3. t[1] = [bps'[1] EXCEPT !.hits = May(bps'[1], held)]
          BY ONLY <3>2 DEF Claimed
    <3>4. t[1].hits = 0
          BY ONLY <1>1, <1>2, <2>1, <3>3 DEF Breakpoints
    <3> HIDE DEF s, t
    <3> QED
        BY <2>1, <3>1, <3>2, <3>4
  <2>3. \A k \in 1 .. Len(s) : s[k] = IF k < 1 THEN t[k] ELSE t[k + 1]
    <3> TAKE k \in 1 .. Len(s)
    <3>1. k \in 1 .. Len(bps) /\ k + 1 \in 1 .. Len(bps') /\ ~ k < 1 /\ bps'[k + 1] = bps[k]
          BY <2>1, <2>2
    <3>2. /\ s[k] = [bps[k] EXCEPT !.hits = May(bps[k], held)]
          /\ t[k + 1] = [bps'[k + 1] EXCEPT !.hits = May(bps'[k + 1], held)]
          BY ONLY <2>2, <3>1 DEF Claimed
    <3> HIDE DEF s, t
    <3> QED
        BY <3>1, <3>2
  <2> HIDE DEF s, t
  <2>4. HitsOf(t) = HitsOf(s) + t[1].hits
        BY <2>2, <2>3, HitsOneMore
  <2>5. HitsOf(s) \in Nat /\ hits \in Nat /\ HitsOf(s) <= hits
        BY <2>2, HitsTyped DEF Accounted, s
  <2>6. HitsOf(t) <= hits
        BY ONLY <2>2, <2>4, <2>5
  <2>7. held.id < nextId'
        BY <1>1, <1>5 DEF Breakpoints, Invalid
  <2> QED
      BY <1>3, <2>5, <2>6, <2>7 DEF Accounted, t
<1> QED
    BY <1>4, <1>5 DEF Add

LEMMA RemoveAccounted ==
    ASSUME Numbered, Accounted, NEW id, RemoveBreakpoint(id)
    PROVE  Accounted'
<1>1. PICK i \in DOMAIN bps : bps' = RemoveAt(bps, i)
      BY DEF RemoveBreakpoint
<1>2. UNCHANGED <<nextId, held, hits>>
      BY DEF RemoveBreakpoint
<1>3. /\ bps' \in Seq(Breakpoints) /\ Len(bps) \in Nat \ {0} /\ i \in 1 .. Len(bps)
      /\ Len(bps') = Len(bps) - 1 /\ DOMAIN bps' = 1 .. (Len(bps) - 1)
      /\ \A k \in DOMAIN bps' : bps'[k] = IF k < i THEN bps[k] ELSE bps[k + 1]
      BY <1>1, TakenOut DEF Numbered
<1>4. bps \in Seq(Breakpoints) /\ held \in Breakpoints
      BY DEF Numbered
<1> DEFINE s == Claimed(bps', held)
           t == Claimed(bps, held)
<1>5. /\ s \in Seq(Breakpoints) /\ t \in Seq(Breakpoints)
      /\ Len(s) = Len(bps') /\ Len(t) = Len(bps)
      BY <1>3, <1>4, ClaimedTyped
<1>6. \A k \in 1 .. Len(s) : s[k] = IF k < i THEN t[k] ELSE t[k + 1]
  <2> TAKE k \in 1 .. Len(s)
  <2>1. k \in 1 .. Len(bps') /\ k \in DOMAIN bps' /\ k \in 1 .. Len(bps) /\ k + 1 \in 1 .. Len(bps)
        BY <1>3, <1>5
  <2>2. s[k] = [bps'[k] EXCEPT !.hits = May(bps'[k], held)]
        BY ONLY <2>1 DEF Claimed
  <2>3. /\ t[k] = [bps[k] EXCEPT !.hits = May(bps[k], held)]
        /\ t[k + 1] = [bps[k + 1] EXCEPT !.hits = May(bps[k + 1], held)]
        BY <1>4, <2>1, ClaimedTyped, Zenon
  <2>4. bps'[k] = IF k < i THEN bps[k] ELSE bps[k + 1]
        BY <1>3, <2>1
  <2> HIDE DEF s, t
  <2>5. CASE k < i
    <3>1. bps'[k] = bps[k]
          BY <2>4, <2>5
    <3> QED
        BY <2>2, <2>3, <2>5, <3>1
  <2>6. CASE ~ k < i
    <3>1. bps'[k] = bps[k + 1]
          BY <2>4, <2>6
    <3> QED
        BY <2>2, <2>3, <2>6, <3>1
  <2> QED
      BY <2>5, <2>6
<1>7. t[i].hits \in Nat
  <2>1. t[i].hits = May(bps[i], held) /\ May(bps[i], held) \in Nat
        BY <1>3, <1>4, ClaimedTyped, Zenon
  <2> QED
      BY ONLY <2>1
<1> HIDE DEF s, t
<1>8. HitsOf(t) = HitsOf(s) + t[i].hits
  <2>1. Len(t) = Len(s) + 1 /\ i \in 1 .. Len(t)
        BY <1>3, <1>5
  <2> QED
      BY <1>5, <1>6, <2>1, HitsOneMore
<1>9. HitsOf(s) \in Nat /\ HitsOf(t) \in Nat /\ hits \in Nat /\ HitsOf(t) <= hits
      BY <1>5, HitsTyped DEF Accounted, t
<1>10. HitsOf(s) <= hits
      BY ONLY <1>7, <1>8, <1>9
<1> QED
    BY <1>2, <1>10 DEF Accounted, s

\* The list is emptied.
LEMMA EmptyAccounted ==
    ASSUME Numbered, Accounted, bps' = <<>>, UNCHANGED <<nextId, held>>, hits' \in Nat
    PROVE  Accounted'
<1>1. bps' \in Seq(Breakpoints) /\ Len(bps') = 0 /\ held \in Breakpoints
      BY DEF Numbered
<1>2. Claimed(bps', held) = <<>>
  <2>1. Claimed(bps', held) \in Seq(Breakpoints) /\ Len(Claimed(bps', held)) = 0
        BY <1>1, ClaimedTyped
  <2> QED
      BY ONLY <2>1, EmptySeq
<1>3. HitsOf(Claimed(bps', held)) <= hits'
      BY <1>2, NoHits
<1> QED
    BY <1>3 DEF Accounted

\* As many entries are hit as there are known breakpoints among those that were, and no more.
LEMMA HitOnce ==
    ASSUME Numbered, NEW hitIds,
           NEW extra, extra = {i \in 1 .. Len(bps) : \E d \in hitIds : FirstDap(i, d)},
           NEW known, known = {d \in hitIds : KnownDap(d)}
    PROVE  Cardinality(extra) \in Nat /\ Cardinality(known) \in Nat
           /\ Cardinality(extra) <= Cardinality(known)
<1>1. Len(bps) \in Nat /\ DOMAIN bps = 1 .. Len(bps)
      BY ListTyped
<1> DEFINE all == {i \in 1 .. Len(bps) : bps[i].dap \in hitIds}
           f == [i \in all |-> bps[i].dap]
           g == [i \in extra |-> bps[i].dap]
<1>2. IsFiniteSet(1 .. Len(bps))
      BY <1>1, FS_Interval
<1>3. IsFiniteSet(all) /\ IsFiniteSet(extra)
      BY <1>2, FS_Subset
<1>4. f \in Surjection(all, known)
      BY <1>1 DEF Surjection, KnownDap
<1>5. IsFiniteSet(known)
      BY <1>3, <1>4, FS_Surjection
<1>6. g \in Injection(extra, known)
  <2>1. \A i \in extra : \E d \in hitIds : FirstDap(i, d) /\ bps[i].dap = d
        BY DEF FirstDap
  <2>2. g \in [extra -> known]
        BY <1>1, <2>1 DEF KnownDap
  <2>3. ASSUME NEW i \in extra, NEW j \in extra, g[i] = g[j] PROVE i = j
    <3>1. FirstDap(i, bps[i].dap) /\ FirstDap(j, bps[j].dap) /\ bps[i].dap = bps[j].dap
          BY <2>1, <2>3
    <3>2. i \in 1 .. Len(bps) /\ j \in 1 .. Len(bps)
          OBVIOUS
    <3>3. i \notin 1 .. (j - 1) /\ j \notin 1 .. (i - 1)
          BY <3>1 DEF FirstDap
    <3> QED
        BY ONLY <1>1, <3>2, <3>3
  <2> QED
      BY <2>2, <2>3 DEF Injection, IsInjective
<1> QED
    BY <1>3, <1>5, <1>6, FS_Injection, FS_CardinalityType

LEMMA StoppedAccounted ==
    ASSUME Numbered, Accounted, NEW u, NEW hitIds, Stopped(u, hitIds)
    PROVE  Accounted'
<1> DEFINE hit(i) == \E d \in hitIds : FirstDap(i, d)
           e(i) == IF hit(i) THEN [bps[i] EXCEPT !.hits = @ + 1] ELSE bps[i]
<1>1. PICK extra : extra = {i \in 1 .. Len(bps) : hit(i)}
      OBVIOUS
<1>2. PICK known : known = {d \in hitIds : KnownDap(d)}
      OBVIOUS
<1>3. /\ Len(bps) \in Nat /\ DOMAIN bps = 1 .. Len(bps)
      /\ \A i \in DOMAIN bps : bps[i] \in Breakpoints
      /\ bps \in Seq(Breakpoints) /\ held \in Breakpoints
      BY ListTyped DEF Numbered
<1>4. /\ bps' = [i \in 1 .. Len(bps) |-> e(i)]
      /\ hits' = hits + Cardinality(known) /\ UNCHANGED <<nextId, held>>
      BY <1>2, <1>3 DEF Stopped
<1>5. \A i \in 1 .. Len(bps) :
          e(i) = IF i \in extra THEN [bps[i] EXCEPT !.hits = @ + 1] ELSE bps[i]
      BY <1>1
<1> HIDE DEF hit, e
<1>6. \A i \in 1 .. Len(bps) :
          e(i) \in Breakpoints /\ May(e(i), held) <= May(bps[i], held) + (IF i \in extra THEN 1 ELSE 0)
  <2> TAKE i \in 1 .. Len(bps)
  <2>1. bps[i] \in Breakpoints /\ bps[i].hits \in Nat /\ held.hits \in Nat
        BY <1>3 DEF Breakpoints
  <2>2. CASE i \in extra
    <3>1. /\ e(i) = [bps[i] EXCEPT !.hits = @ + 1] /\ e(i) \in Breakpoints
          /\ e(i).id = bps[i].id /\ e(i).hits = bps[i].hits + 1
          BY <1>5, <2>1, <2>2 DEF Breakpoints
    <3>2. May(e(i), held) <= May(bps[i], held) + 1
          BY ONLY <2>1, <3>1 DEF May
    <3> QED
        BY <2>2, <3>1, <3>2
  <2>3. CASE i \notin extra
    <3>1. e(i) = bps[i]
          BY <1>5, <2>3
    <3>2. May(bps[i], held) \in Nat
          BY ONLY <2>1 DEF May
    <3> QED
        BY <2>1, <2>3, <3>1, <3>2
  <2> QED
      BY <2>2, <2>3
<1>7. /\ bps' \in Seq(Breakpoints) /\ Len(bps') = Len(bps)
      /\ \A i \in 1 .. Len(bps) : bps'[i] = e(i)
      BY <1>3, <1>4, <1>6
<1>8. HitsOf(Claimed(bps', held)) <= HitsOf(Claimed(bps, held)) + Cardinality(extra)
  <2>1. \A i \in 1 .. Len(bps) :
            May(bps'[i], held) <= May(bps[i], held) + (IF i \in extra THEN 1 ELSE 0)
        BY <1>6, <1>7
  <2>2. extra \in SUBSET (1 .. Len(bps))
        BY <1>1
  <2> QED
      BY <1>3, <1>7, <2>1, <2>2, ClaimsGrow
<1>9. Cardinality(extra) \in Nat /\ Cardinality(known) \in Nat
      /\ Cardinality(extra) <= Cardinality(known)
      BY <1>1, <1>2, HitOnce DEF hit
<1>10. HitsOf(Claimed(bps', held)) \in Nat /\ HitsOf(Claimed(bps, held)) \in Nat
       BY <1>3, <1>7, ClaimedTyped, HitsTyped
<1>11. hits \in Nat /\ HitsOf(Claimed(bps, held)) <= hits /\ held.id < nextId
       BY DEF Accounted
<1>12. hits + Cardinality(known) \in Nat
       /\ HitsOf(Claimed(bps', held)) <= hits + Cardinality(known)
       BY ONLY <1>8, <1>9, <1>10, <1>11
<1> QED
    BY <1>4, <1>11, <1>12 DEF Accounted

LEMMA BreakpointStepsAccounted ==
    ASSUME Numbered, Accounted, NEW d \in DapIds \cup {Invalid}, NEW loc \in Locations,
           \/ SetBreakpoint(d, loc)
           \/ SetBreakpointsResponse(d, loc)
           \/ \E reason \in {"new", "changed", "removed"} : BreakpointEvent(d, loc, reason)
    PROVE  Accounted'
<1>1. CASE Add(Fresh(d, loc))
  <2>1. Fresh(d, loc).hits = 0
        BY DEF Fresh
  <2> QED
      BY <1>1, <2>1, FreshTyped, AddAccounted
<1>2. ASSUME NEW i \in DOMAIN bps, Update([Fresh(d, loc) EXCEPT !.id = bps[i].id])
      PROVE  Accounted'
  <2> DEFINE b == [Fresh(d, loc) EXCEPT !.id = bps[i].id]
  <2>1. bps[i].id \in Nat
        BY DEF Numbered
  <2>2. b \in Breakpoints
        BY <2>1, FreshTyped
  <2>3. b.hits = 0
        BY DEF Fresh
  <2> HIDE DEF b
  <2>4. \A j \in DOMAIN bps : bps[j].id = b.id => b.hits <= May(bps[j], held)
    <3>1. bps \in Seq(Breakpoints) /\ held \in Breakpoints
          BY DEF Numbered
    <3>2. \A j \in DOMAIN bps : May(bps[j], held) \in Nat
          BY <3>1, ClaimedTyped
    <3> QED
        BY <2>3, <3>2
  <2>5. Update(b)
        BY <1>2 DEF b
  <2> QED
      BY <2>2, <2>4, <2>5, UpdateAccounted
<1>3. CASE UNCHANGED <<bps, nextId, held, hits>>
      BY <1>3 DEF Accounted
<1> QED
    BY <1>1, <1>2, <1>3 DEF SetBreakpoint, SetBreakpointsResponse, BreakpointEvent

LEMMA CallerAccounted ==
    ASSUME Numbered, Accounted, CallerStep
    PROVE  Accounted'
<1>1. /\ bps \in Seq(Breakpoints) /\ held \in Breakpoints
      /\ DOMAIN bps = 1 .. Len(bps)
      /\ \A i \in DOMAIN bps : bps[i] \in Breakpoints
      /\ \A i, j \in DOMAIN bps : bps[i].id = bps[j].id => i = j
      BY ListTyped DEF Numbered
<1>2. \A i \in DOMAIN bps : bps[i].hits <= May(bps[i], held)
      BY <1>1, ClaimedTyped
<1>3. ASSUME NEW id \in IdsOf(bps), NEW e \in BOOLEAN, SetBreakpointEnabled(id, e)
      PROVE  Accounted'
  <2>1. PICK i \in DOMAIN bps : Update([bps[i] EXCEPT !.enabled = e])
        BY <1>3 DEF SetBreakpointEnabled
  <2> DEFINE b == [bps[i] EXCEPT !.enabled = e]
  <2>2. b \in Breakpoints /\ b.id = bps[i].id /\ b.hits = bps[i].hits
        BY <1>1 DEF Breakpoints
  <2>3. Update(b)
        BY <2>1
  <2> HIDE DEF b
  <2>4. \A j \in DOMAIN bps : bps[j].id = b.id => b.hits <= May(bps[j], held)
        BY <1>1, <1>2, <2>2
  <2> QED
      BY <2>2, <2>3, <2>4, UpdateAccounted
<1>4. ASSUME NEW id \in IdsOf(bps), GetBreakpoint(id)
      PROVE  Accounted'
  <2>1. PICK i \in DOMAIN bps : held' = bps[i]
        BY <1>4 DEF GetBreakpoint
  <2>2. UNCHANGED <<bps, nextId, hits>>
        BY <1>4 DEF GetBreakpoint
  <2>3. \A n \in 1 .. Len(bps) : May(bps[n], bps[i]) <= May(bps[n], held)
    <3> TAKE n \in 1 .. Len(bps)
    <3>1. May(bps[n], bps[i]) = bps[n].hits
      <4>1. bps[n].hits \in Nat /\ (bps[n].id = bps[i].id => bps[n].hits = bps[i].hits)
            BY <1>1 DEF Breakpoints
      <4> QED
          BY <4>1 DEF May
    <3> QED
        BY <1>1, <1>2, <3>1
  <2>4. bps[i].id < nextId /\ bps[i] \in Breakpoints
        BY <1>1 DEF Numbered
  <2> QED
      BY <1>1, <2>1, <2>2, <2>3, <2>4, ClaimsKept
<1>5. ASSUME NEW e \in BOOLEAN, UpdateBreakpoint(e)
      PROVE  Accounted'
  <2> DEFINE b == [held EXCEPT !.enabled = e]
  <2>1. b \in Breakpoints /\ b.id = held.id /\ b.hits = held.hits
        BY <1>1 DEF Breakpoints
  <2>2. Update(b)
        BY <1>5 DEF UpdateBreakpoint
  <2> HIDE DEF b
  <2>3. \A j \in DOMAIN bps : bps[j].id = b.id => b.hits <= May(bps[j], held)
        BY <1>1, <2>1 DEF May, Breakpoints
  <2> QED
      BY <2>1, <2>2, <2>3, UpdateAccounted
<1>6. CASE ClearBreakpoints \/ Reset
  <2>1. bps' = <<>> /\ UNCHANGED <<nextId, held>> /\ hits' \in {hits, 0}
        BY <1>6 DEF ClearBreakpoints, Reset
  <2>2. hits' \in Nat
        BY <2>1 DEF Accounted
  <2> QED
      BY <2>1, <2>2, EmptyAccounted
<1>7. ASSUME \/ \E t \in ThreadIds : SelectThread(t)
             \/ \E s \in Execs : SetExecState(s)
             \/ ClearThreads
      PROVE  Accounted'
  <2>1. UNCHANGED <<bps, nextId, held, hits>>
        BY <1>7 DEF SelectThread, SetExecState, ClearThreads
  <2> QED
      BY <2>1 DEF Accounted
<1> QED
    BY <1>3, <1>4, <1>5, <1>6, <1>7, BreakpointStepsAccounted, RemoveAccounted DEF CallerStep

LEMMA DebuggerAccounted ==
    ASSUME Numbered, Accounted, DebuggerStep
    PROVE  Accounted'
<1>1. CASE Continued \/ Ended
  <2>1. UNCHANGED <<bps, nextId, held, hits>>
        BY <1>1 DEF Continued, Ended, SetExecState
  <2> QED
      BY <2>1 DEF Accounted
<1>2. CASE UNCHANGED <<bps, nextId, exec, hits, held>>
      BY <1>2 DEF Accounted
<1> QED
    BY <1>1, <1>2, ThreadStepsApart, BreakpointStepsAccounted, StoppedAccounted DEF DebuggerStep

\* No hit is invented: what the entries count was counted since the last reset.  An old copy
\* written back may bring hits back; those of the entries and of the copy together stay below
\* what was counted.
THEOREM HitsStayAccounted == Spec => []HitsAccounted
<1>1. Init => Numbered /\ Accounted
  <2> SUFFICES ASSUME Init PROVE Accounted
      BY NumberedAtFirst
  <2>1. Numbered /\ bps = <<>> /\ hits = 0 /\ nextId = 1 /\ held.id = Invalid
        BY NumberedAtFirst DEF Init, Fresh
  <2>2. Claimed(bps, held) = <<>>
    <3>1. bps \in Seq(Breakpoints) /\ Len(bps) = 0 /\ held \in Breakpoints
          BY <2>1 DEF Numbered
    <3>2. Claimed(bps, held) \in Seq(Breakpoints) /\ Len(Claimed(bps, held)) = 0
          BY <3>1, ClaimedTyped
    <3> QED
        BY ONLY <3>2, EmptySeq
  <2> QED
      BY <2>1, <2>2, NoHits DEF Accounted, Invalid
<1>2. Numbered /\ Accounted /\ [Next]_vars => (Numbered /\ Accounted)'
  <2>1. ASSUME Numbered, Accounted, Next PROVE Accounted'
        BY <2>1, CallerAccounted, DebuggerAccounted DEF Next
  <2>2. ASSUME Accounted, UNCHANGED vars PROVE Accounted'
        BY <2>2 DEF Accounted, vars
  <2> QED
      BY <2>1, <2>2, NumberedKept
<1>3. Numbered /\ Accounted => HitsAccounted
  <2> SUFFICES ASSUME Numbered, Accounted PROVE HitsOf(bps) <= hits
      BY DEF HitsAccounted
  <2> DEFINE c == Claimed(bps, held)
  <2>1. bps \in Seq(Breakpoints) /\ held \in Breakpoints /\ {} \in SUBSET (1 .. Len(c))
        BY DEF Numbered
  <2>2. /\ c \in Seq(Breakpoints) /\ Len(c) = Len(bps)
        /\ \A n \in 1 .. Len(bps) : c[n].hits = May(bps[n], held)
                                    /\ bps[n].hits <= May(bps[n], held)
                                    /\ May(bps[n], held) \in Nat
        BY <2>1, ClaimedTyped
  <2>3. HitsOf(c) \in Nat /\ HitsOf(bps) \in Nat /\ hits \in Nat /\ HitsOf(c) <= hits
        BY <2>1, <2>2, HitsTyped DEF Accounted
  <2> HIDE DEF c
  <2>4. \A n \in 1 .. Len(c) : bps[n].hits <= c[n].hits + (IF n \in {} THEN 1 ELSE 0)
        BY <2>2
  <2>5. HitsOf(bps) <= HitsOf(c) + Cardinality({})
        BY <2>1, <2>2, <2>4, HitsGrow
  <2>6. Cardinality({}) = 0
        BY FS_EmptySet
  <2> QED
      BY ONLY <2>3, <2>5, <2>6
<1> QED
    BY <1>1, <1>2, <1>3, PTL DEF Spec
===============================================================================
