------------------------------ MODULE StateData ------------------------------
(***************************************************************************)
(* What the state model of src/src/state_model.c keeps of a stopped program: *)
(* the frames of each thread, the variables of each scope, the exception and *)
(* the loaded modules; and the listeners that are told of changes.           *)
(*                                                                          *)
(* A list is replaced as a whole by each response and hangs in a chain, the  *)
(* newest first.  A listener is a callback that, told of a change, copies    *)
(* what changed, as a front end does that draws from its own copy.  The      *)
(* scopes of a frame change without a word to anybody and nothing else       *)
(* depends on them: they are left out.                                       *)
(***************************************************************************)
EXTENDS Integers, Sequences, SequencesExt, FiniteSets

CONSTANTS
    DataThreads,    \* threads with a stack
    FrameLists,     \* the stacks a debugger or an adapter gives: sequences of frame numbers
    Scopes,         \* variablesReference numbers
    Counts,         \* how many variables a scope may have
    MaxInt,         \* INT_MAX
    Exceptions,     \* md_exception_t
    Modules,        \* the debugger's module numbers
    MaxModules,     \* model->config.max_modules
    Wants,          \* the events each callback is registered for
    MaxListeners    \* bound: no more listeners than this

Callbacks == DOMAIN Wants

ASSUME StateDataAssumption ==
    /\ Scopes \subseteq Nat /\ Counts \subseteq Nat /\ 0 \notin Counts
    /\ MaxInt \in Nat /\ MaxModules \in Nat /\ MaxListeners \in Nat
    /\ Wants \in [Callbacks -> SUBSET {"stack", "variable", "exception"}]

VARIABLES
    stacks,         \* model->frame_lists: [of, items], the newest first
    varLists,       \* model->var_lists: [of, items], items their number
    exception,      \* model->exception, {} without one
    currentFrame,   \* model->current_frame_id
    listeners,      \* model->listeners: [callback, copy], the newest first
    untold,         \* what was taken away since the listeners were last told of it (history)
    modules,        \* model->modules, the newest first
    moduleCount,    \* model->module_count
    loaded,         \* the modules announced and not yet removed (history)
    crowded         \* they were more than MaxModules at some time (history)

inspection == <<stacks, varLists, exception, currentFrame, listeners, untold>>
moduleVars == <<modules, moduleCount, loaded, crowded>>
dataVars == <<inspection, moduleVars>>

NoFrame == -1       \* MD_INVALID_ID

InspectionInit ==
    /\ stacks = <<>> /\ varLists = <<>> /\ exception = {} /\ currentFrame = NoFrame
    /\ listeners = <<>> /\ untold = {}

ModuleInit ==
    /\ modules = <<>> /\ moduleCount = 0 /\ loaded = {} /\ crowded = FALSE

-----------------------------------------------------------------------------
(* Chains of lists.                                                         *)

Chained(chain, key) == \E i \in DOMAIN chain : chain[i].of = key

\* The list of key gets new items, in its place; a key without a list gets one in front.
Put(chain, key, new) ==
    IF Chained(chain, key)
    THEN [i \in DOMAIN chain |-> IF chain[i].of = key THEN [chain[i] EXCEPT !.items = new]
                                                      ELSE chain[i]]
    ELSE <<[of |-> key, items |-> new]>> \o chain

\* The first list of key goes.
Drop(chain, key) ==
    IF Chained(chain, key)
    THEN RemoveAt(chain, CHOOSE i \in DOMAIN chain :
                             chain[i].of = key /\ \A j \in 1 .. (i - 1) : chain[j].of # key)
    ELSE chain

\* What a reader gets for key, and none when there is no list.
Read(chain, key, none) ==
    IF Chained(chain, key)
    THEN chain[CHOOSE i \in DOMAIN chain : chain[i].of = key].items
    ELSE none

FramesOf(t) == Read(stacks, t, <<>>)
VariablesOf(s) == Read(varLists, s, 0)

-----------------------------------------------------------------------------
(* Listeners.                                                               *)

Events == {"stack", "variable", "exception"}

\* The keys of an event, what the model has of each, and what it has when it has nothing.
Keys(e) ==
    CASE e = "stack" -> DataThreads
      [] e = "variable" -> Scopes
      [] e = "exception" -> {"it"}

Now(e, k) ==
    CASE e = "stack" -> FramesOf(k)
      [] e = "variable" -> VariablesOf(k)
      [] e = "exception" -> exception

Nothing(e) ==
    CASE e = "stack" -> <<>>
      [] e = "variable" -> 0
      [] e = "exception" -> {}

EveryKey == UNION {{e} \X Keys(e) : e \in Events}

\* A callback's first copies, made when it is registered.
FirstCopy(c) == [e \in Wants[c] |-> [k \in Keys(e) |-> Now(e, k)]]

AddListener(c) ==
    /\ Len(listeners) < MaxListeners
    /\ listeners' = <<[callback |-> c, copy |-> FirstCopy(c)]>> \o listeners
    /\ UNCHANGED <<stacks, varLists, exception, currentFrame, untold>>

\* The newest entry of the callback goes.
RemoveListener(c) ==
    /\ \E i \in DOMAIN listeners :
          /\ listeners[i].callback = c
          /\ \A j \in 1 .. (i - 1) : listeners[j].callback # c
          /\ listeners' = RemoveAt(listeners, i)
    /\ UNCHANGED <<stacks, varLists, exception, currentFrame, untold>>

\* Mutant: only the newest listener of the event is told.
NotifyFirst(event, key, now) ==
    [i \in DOMAIN listeners |->
        IF event \in Wants[listeners[i].callback]
              /\ \A j \in 1 .. (i - 1) : event \notin Wants[listeners[j].callback]
        THEN [listeners[i] EXCEPT !.copy[event][key] = now]
        ELSE listeners[i]]

\* The listeners once all that asked for the event have read what key has now.
Notify(event, key, now) ==
    [i \in DOMAIN listeners |->
        IF event \in Wants[listeners[i].callback]
        THEN [listeners[i] EXCEPT !.copy[event][key] = now]
        ELSE listeners[i]]

Tell(event, key, now) ==
    listeners' = Notify(event, key, now) /\ untold' = untold \ {<<event, key>>}

\* The code that takes the keys' values away has no call of md_state_model_notify.
Silently(keys) ==
    /\ UNCHANGED listeners
    /\ untold' = untold \cup {q \in keys : Now(q[1], q[2]) # Nothing(q[1])}

-----------------------------------------------------------------------------
(* Frames and variables.                                                    *)

\* Without memory for its new items a list has none left, if there was memory for the list.
WithoutItems(chain, key, none) == {Put(chain, key, none)} \cup IF Chained(chain, key) THEN {} ELSE {chain}

SetStackFrames(t, frames, memory) ==
    IF memory
    THEN stacks' = Put(stacks, t, frames) /\ Tell("stack", t, frames)
    ELSE stacks' \in WithoutItems(stacks, t, <<>>) /\ Silently({<<"stack", t>>})

\* An adapter sets the frames it has read itself.
AdapterSetsFrames(t, frames, memory) ==
    SetStackFrames(t, frames, memory) /\ UNCHANGED <<varLists, exception, currentFrame>>

\* A stackTrace response: an empty one leaves what there was, and only the first frame of all
\* becomes the current one.
StackTraceResponse(t, frames, memory) ==
    /\ frames # <<>>
    /\ SetStackFrames(t, frames, memory)
    /\ currentFrame' = IF memory /\ currentFrame = NoFrame THEN frames[1] ELSE currentFrame
    /\ UNCHANGED <<varLists, exception>>

ClearStackFrames(t) ==
    /\ stacks' = Drop(stacks, t) /\ Silently({<<"stack", t>>})
    /\ UNCHANGED <<varLists, exception, currentFrame>>

ClearAllStackFrames ==
    /\ stacks' = <<>> /\ Silently({"stack"} \X DataThreads)
    /\ UNCHANGED <<varLists, exception, currentFrame>>

\* A variables response and md_state_set_variables; an empty response changes nothing.
VariablesResponse(s, n, memory) ==
    /\ n > 0
    /\ IF memory
       THEN varLists' = Put(varLists, s, n) /\ Tell("variable", s, n)
       ELSE varLists' \in WithoutItems(varLists, s, 0) /\ Silently({<<"variable", s>>})
    /\ UNCHANGED <<stacks, exception, currentFrame>>

ClearVariables ==
    /\ varLists' = <<>> /\ Silently({"variable"} \X Scopes)
    /\ UNCHANGED <<stacks, exception, currentFrame>>

IdStride == 1000

\* What a build makes of n as an int: the product below overflows, which C leaves undefined,
\* and the low bits are stored.
Word == 2 * (MaxInt + 1)
Wrapped(n) == ((n + MaxInt + 1) % Word) - (MaxInt + 1)

\* Mutant: too few numbers for a scope.
VariableIdTight(s, i) == Wrapped(s * (IdStride - 1) + i)

\* The number the i-th variable of scope s gets, counted from 0.
VariableId(s, i) == Wrapped(s * IdStride + i)

\* What md_state_get_variable finds: the first list with that number, and the place in it,
\* here counted from the number of the list's first variable.
FindVariable(id) ==
    LET place(i) == (id - VariableId(varLists[i].of, 0)) % Word
        has(i) == place(i) < varLists[i].items
        first == CHOOSE i \in DOMAIN varLists : has(i) /\ \A j \in 1 .. (i - 1) : ~has(j)
    IN  [scope |-> varLists[first].of, place |-> place(first)]

SetException(x) ==
    /\ exception' = {x}
    /\ Tell("exception", "it", {x})
    /\ UNCHANGED <<stacks, varLists, currentFrame>>

ClearException ==
    /\ exception' = {}
    /\ Tell("exception", "it", {})
    /\ UNCHANGED <<stacks, varLists, currentFrame>>

SelectFrame(f) ==
    /\ currentFrame' = f
    /\ UNCHANGED <<stacks, varLists, exception, listeners, untold>>

\* md_state_model_reset empties everything but the listeners.
ResetInspection ==
    /\ stacks' = <<>> /\ varLists' = <<>> /\ exception' = {} /\ currentFrame' = NoFrame
    /\ Silently(EveryKey)

-----------------------------------------------------------------------------
(* Modules.                                                                 *)

Listed(m) == \E i \in DOMAIN modules : modules[i] = m

\* A module event with reason new or changed: full is tested first, then known.
ModuleLoaded(m) ==
    /\ IF moduleCount >= MaxModules \/ Listed(m)
       THEN UNCHANGED <<modules, moduleCount>>
       ELSE modules' = <<m>> \o modules /\ moduleCount' = moduleCount + 1
    /\ loaded' = loaded \cup {m}
    /\ crowded' = (crowded \/ Cardinality(loaded') > MaxModules)

\* Mutant: the count stays.
ModuleRemovedUncounted(m) ==
    /\ \/ ~Listed(m) /\ UNCHANGED modules
       \/ \E i \in DOMAIN modules :
             /\ modules[i] = m /\ \A j \in 1 .. (i - 1) : modules[j] # m
             /\ modules' = RemoveAt(modules, i)
    /\ loaded' = loaded \ {m}
    /\ UNCHANGED <<moduleCount, crowded>>

\* A module event with reason removed.
ModuleRemoved(m) ==
    /\ \/ ~Listed(m) /\ UNCHANGED <<modules, moduleCount>>
       \/ \E i \in DOMAIN modules :
             /\ modules[i] = m /\ \A j \in 1 .. (i - 1) : modules[j] # m
             /\ modules' = RemoveAt(modules, i) /\ moduleCount' = moduleCount - 1
    /\ loaded' = loaded \ {m}
    /\ UNCHANGED crowded

ResetModules ==
    modules' = <<>> /\ moduleCount' = 0 /\ loaded' = {} /\ crowded' = FALSE

-----------------------------------------------------------------------------
InspectionStep ==
    \/ \E c \in Callbacks : AddListener(c) \/ RemoveListener(c)
    \/ \E memory \in BOOLEAN :
          \/ \E t \in DataThreads, frames \in FrameLists :
                AdapterSetsFrames(t, frames, memory) \/ StackTraceResponse(t, frames, memory)
          \/ \E s \in Scopes, n \in Counts : VariablesResponse(s, n, memory)
    \/ \E t \in DataThreads : ClearStackFrames(t)
    \/ ClearAllStackFrames \/ ClearVariables
    \/ \E x \in Exceptions : SetException(x)
    \/ ClearException
    \/ \E frames \in FrameLists \ {<<>>} : SelectFrame(Last(frames))

ModuleStep == \E m \in Modules : ModuleLoaded(m) \/ ModuleRemoved(m)

\* The two halves share nothing but the reset, which empties each.
InspectionNext == InspectionStep \/ ResetInspection
ModuleNext == ModuleStep \/ ResetModules

InspectionSpec == InspectionInit /\ [][InspectionNext]_inspection
ModuleSpec == ModuleInit /\ [][ModuleNext]_moduleVars

-----------------------------------------------------------------------------
(* Properties.                                                              *)

\* A front end that draws from its copies shows what the model has of each thread, of each
\* scope and of the exception, or once had and lost without a word since: every replacement
\* and every exception raised or cleared reaches every listener that asked for it, through
\* failed allocations, lists cleared and made again, a callback registered twice and taken
\* off once; and nothing is left in the model of what went without a word
\* (md_state_model_notify and its callers).
ListenersSeeData ==
    \A i \in DOMAIN listeners : LET copy == listeners[i].copy IN
        \A e \in DOMAIN copy : \A k \in Keys(e) :
            IF <<e, k>> \in untold THEN Now(e, k) = Nothing(e) ELSE copy[e][k] = Now(e, k)

\* state_model.c:1878 numbers the variables to find them again: while no scope has more
\* than 1000 and the numbers of every scope fit into an int, each number leads to the
\* variable it was given to, in whatever order the scopes were asked for
\* (md_state_parse_variables_response, md_state_get_variable).
VariablesFound ==
    (\A i \in DOMAIN varLists :
        varLists[i].items <= 1000 /\ varLists[i].of * IdStride + 999 <= MaxInt) =>
            \A i \in DOMAIN varLists : \A place \in {0, varLists[i].items - 1} :
                varLists[i].items > 0 =>
                    FindVariable(VariableId(varLists[i].of, place))
                        = [scope |-> varLists[i].of, place |-> place]

\* Modules come and go without the list drifting: unless the debugger once had more than
\* fit, the list holds exactly those it has announced and not removed since the reset
\* (md_state_handle_module_event, model->module_count).
ModulesFollow == crowded \/ ToSet(modules) = loaded
=============================================================================
