--------------------------- MODULE DapClientProofs ---------------------------
(***************************************************************************)
(* What DapClient promises, proved for every set of commands, every limit of *)
(* the table of pending requests, every timeout and every bound.             *)
(*                                                                           *)
(* The three safety invariants are not inductive: they rest on the numbers   *)
(* of the table being distinct and spent, on every request and every answer  *)
(* of the debugger having its entry, and on every response still on its way  *)
(* repeating an answer.  IInv adds these; its conjuncts that an action does  *)
(* not touch are dealt with together, the others one by one.  The last part  *)
(* proves the refinement of RemoteCall.                                      *)
(***************************************************************************)
EXTENDS DapClient, SequenceTheorems, TLAPS

-----------------------------------------------------------------------------
\* The table's numbers are spent and distinct; an entry has an answer only if completed.
TableNumbered ==
    /\ \A i \in DOMAIN pending : pending[i].seq < seq
    /\ \A i, j \in DOMAIN pending : pending[i].seq = pending[j].seq => i = j
    /\ \A i \in DOMAIN pending : pending[i].success => pending[i].completed

\* The number s was given to command c.
Registered(s, c) == \E i \in DOMAIN pending : pending[i].seq = s /\ pending[i].cmd = c

\* The call in progress has its entry, and until it is sent the debugger knows nothing of it.
CallOwned ==
    /\ call.pc \in {"send", "wait"} => call.cmd # "process"
    /\ call.pc = "idle" => call.cmd = "process"
    /\ call.cmd = "process" => call.seq = 0
    /\ call.cmd # "process" => Registered(call.seq, call.cmd)
    /\ call.pc = "send" => \A r \in received \cup answers : r.seq # call.seq

\* The debugger has read, and answered, what was registered and nothing else.
DebuggerKnows == \A r \in received \cup answers : Registered(r.seq, r.cmd)

\* The call that returned last is not the one in progress, nor one to come.
Returned ==
    /\ ret.seq < seq
    /\ call.cmd # "process" => ret.seq # call.seq

\* The messages that say only what the debugger answered.
TrueMessages ==
    {m \in Messages : m.type = "response" =>
        \E a \in answers : a.seq = m.seq /\ a.success = m.success}

MessagesTrue == batch \in Seq(TrueMessages) /\ stream \in Seq(TrueMessages)

IInv ==
    /\ TypeOK /\ TableNumbered /\ CallOwned /\ DebuggerKnows /\ Returned /\ MessagesTrue
    /\ AnswerCredited /\ ResultSound /\ InitializedGranted

-----------------------------------------------------------------------------
(* Facts about the operators of DapClient.                                   *)

\* Appending an entry lengthens the table by one and leaves the others in place.
LEMMA AppendEntry ==
    ASSUME pending \in Seq(Entries), NEW e \in Entries, pending' = Append(pending, e)
    PROVE  /\ pending' \in Seq(Entries)
           /\ DOMAIN pending = 1 .. Len(pending) /\ Len(pending) \in Nat
           /\ DOMAIN pending' = 1 .. (Len(pending) + 1) /\ Len(pending') = Len(pending) + 1
           /\ \A i \in DOMAIN pending : pending'[i] = pending[i]
           /\ pending'[Len(pending) + 1] = e
BY AppendProperties, LenProperties

\* A new entry takes nobody's registration away.
LEMMA RegisteredStays ==
    ASSUME pending \in Seq(Entries), NEW e \in Entries, pending' = Append(pending, e),
           NEW s, NEW c, Registered(s, c)
    PROVE  Registered(s, c)'
BY AppendEntry DEF Registered

\* What is in the table is an entry.
LEMMA EntryTyped ==
    ASSUME TypeOK
    PROVE  /\ Len(pending) \in Nat /\ DOMAIN pending = 1 .. Len(pending)
           /\ \A i \in DOMAIN pending : /\ pending[i] \in Entries
                                        /\ pending[i].seq \in Nat \ {0}
                                        /\ pending[i].cmd \in Commands
<1>1. pending \in Seq(Entries)
      BY DEF TypeOK
<1>2. Len(pending) \in Nat /\ DOMAIN pending = 1 .. Len(pending)
      BY <1>1, LenProperties
<1>3. \A i \in DOMAIN pending : pending[i] \in Entries
      BY <1>1, <1>2, ElementOfSeq
<1> QED
    BY <1>2, <1>3, BoundsAssumption DEF Entries, Seqs

\* Reading moves messages from the pipe to the batch and changes none.
LEMMA ReadSomeMoves ==
    ASSUME NEW T, batch \in Seq(T), stream \in Seq(T), ReadSome
    PROVE  batch' \in Seq(T) /\ stream' \in Seq(T)
<1>1. PICK n \in 0 .. Len(stream) :
          batch' = batch \o SubSeq(stream, 1, n) /\ stream' = SubSeq(stream, n + 1, Len(stream))
      BY DEF ReadSome
<1>2. Len(stream) \in Nat /\ \A i \in 1 .. Len(stream) : stream[i] \in T
      BY LenProperties, ElementOfSeq
<1>3. SubSeq(stream, 1, n) \in Seq(T)
      BY <1>2, SubSeqProperties
<1>4. SubSeq(stream, n + 1, Len(stream)) \in Seq(T)
  <2>1. n + 1 \in Int /\ Len(stream) \in Int /\ \A i \in n + 1 .. Len(stream) : stream[i] \in T
        BY <1>2
  <2> QED BY <2>1, SubSeqProperties
<1> QED BY <1>1, <1>3, <1>4, ConcatProperties

\* An answer more leaves every true message true.
LEMMA TrueMessagesGrow ==
    ASSUME answers \subseteq answers', NEW s \in Seq(TrueMessages)
    PROVE  s \in Seq(TrueMessages')
<1>1. TrueMessages \subseteq TrueMessages'
      BY DEF TrueMessages, Messages
<1> QED BY <1>1, SeqMonotonic

-----------------------------------------------------------------------------
(* The invariant is kept, action by action.                                  *)

LEMMA InitIInv == Init => IInv
<1> SUFFICES ASSUME Init PROVE IInv
    OBVIOUS
<1>1. TypeOK
  <2>1. pending \in Seq(Entries) /\ Len(pending) <= MaxPending /\ seq \in Seqs
        BY EmptySeq, BoundsAssumption, MaxPendingAssumption DEF Init, Seqs
  <2>2. batch \in Seq(Messages) /\ stream \in Seq(Messages)
        BY EmptySeq DEF Init
  <2>3. call \in [pc : Places, cmd : Commands \cup {"process"}, seq : Seqs \cup {0},
                  elapsed : Nat, hup : BOOLEAN]
        BY DEF Init, Idle, Places
  <2> QED
      BY <2>1, <2>2, <2>3 DEF Init, TypeOK, Result, Errors
<1>2. MessagesTrue
      BY EmptySeq DEF Init, MessagesTrue
<1> QED
    BY <1>1, <1>2 DEF Init, IInv, TableNumbered, CallOwned, DebuggerKnows, Returned, Idle,
        Result, AnswerCredited, ResultSound, InitializedGranted

\* What an action that leaves the table, the debugger and the messages alone keeps.
LEMMA TableUntouched ==
    ASSUME IInv, UNCHANGED <<pending, received, answers>>
    PROVE  /\ \A i, j \in DOMAIN pending' : pending'[i].seq = pending'[j].seq => i = j
           /\ \A i \in DOMAIN pending' : pending'[i].success => pending'[i].completed
           /\ DebuggerKnows' /\ AnswerCredited'
           /\ TrueMessages' = TrueMessages
           /\ \A s, c : Registered(s, c)' <=> Registered(s, c)
BY DEF IInv, TableNumbered, DebuggerKnows, AnswerCredited, TrueMessages, Registered

LEMMA StartKeeps ==
    ASSUME IInv, NEW c \in Commands, Start(c)
    PROVE  IInv'
<1> DEFINE e == Entry(seq, c)
           n == Len(pending)
<1>1. seq \in Nat /\ seq > 0 /\ seq + 1 \in Seqs
      BY BoundsAssumption DEF IInv, TypeOK, Start, Seqs
<1>2. e \in Entries /\ e.seq = seq /\ e.cmd = c /\ ~e.completed /\ ~e.success
      BY DEF IInv, TypeOK, Entry, Entries, Seqs
<1>3. /\ pending' \in Seq(Entries)
      /\ DOMAIN pending = 1 .. n /\ n \in Nat
      /\ DOMAIN pending' = 1 .. (n + 1) /\ Len(pending') = n + 1
      /\ \A i \in DOMAIN pending : pending'[i] = pending[i]
      /\ pending'[n + 1] = e
      BY <1>2, AppendEntry DEF IInv, TypeOK, Start
<1>4. \A s, d : Registered(s, d) => Registered(s, d)'
      BY <1>3 DEF Registered
<1>5. \E i \in DOMAIN pending' : pending'[i].seq = seq /\ pending'[i].cmd = c
  <2>1. n + 1 \in DOMAIN pending' /\ pending'[n + 1].seq = seq /\ pending'[n + 1].cmd = c
        BY <1>2, <1>3
  <2> QED
      BY <2>1
<1>6. \A r \in received \cup answers : r.seq < seq
      BY DEF IInv, DebuggerKnows, Registered, TableNumbered
<1>7. TypeOK'
  <2>1. call' \in [pc : Places, cmd : Commands \cup {"process"}, seq : Seqs \cup {0},
                   elapsed : Nat, hup : BOOLEAN]
        BY DEF IInv, TypeOK, Start, Idle, Places
  <2>2. Len(pending') <= MaxPending
        BY <1>3, MaxPendingAssumption DEF Start
  <2> QED
      BY <1>1, <1>3, <2>1, <2>2 DEF IInv, TypeOK, Start, debugger
<1>8. TableNumbered'
  <2>1. \A i \in DOMAIN pending : pending[i].seq < seq /\ pending[i].seq \in Nat
        BY EntryTyped DEF IInv, TableNumbered
  <2>2. \A i \in DOMAIN pending' : i \in DOMAIN pending \/ i = n + 1
        BY <1>3
  <2> QED
      BY <1>1, <1>2, <1>3, <2>1, <2>2 DEF IInv, TableNumbered, Start
<1>9. CallOwned' /\ Returned'
  <2>1. /\ call'.pc = "send" /\ call'.cmd = c /\ call'.seq = seq
        /\ c # "process" /\ seq' = seq + 1
        BY CommandsAssumption DEF Start, Idle
  <2>2. \A r \in received \cup answers : r.seq # seq
        BY <1>1, <1>6
  <2>3. ret' = ret /\ ret.seq \in Nat /\ ret.seq < seq
        BY <1>1 DEF IInv, TypeOK, Returned, Start, Seqs
  <2> QED
      BY <1>1, <1>5, <2>1, <2>2, <2>3 DEF CallOwned, Registered, Returned, Start, debugger
<1>10. DebuggerKnows'
      BY <1>4 DEF IInv, DebuggerKnows, Start, debugger
<1>11. MessagesTrue'
      BY DEF IInv, MessagesTrue, TrueMessages, Start, debugger
<1>12. AnswerCredited'
  <2>1. \A i \in DOMAIN pending' : pending'[i].completed => i \in DOMAIN pending
        BY <1>2, <1>3
  <2> QED
      BY <1>3, <2>1 DEF IInv, AnswerCredited, Start, debugger
<1>13. ResultSound' /\ InitializedGranted'
      BY DEF IInv, ResultSound, InitializedGranted, Start, debugger
<1> QED
    BY <1>7, <1>8, <1>9, <1>10, <1>11, <1>12, <1>13 DEF IInv

LEMMA StartRefusedKeeps ==
    ASSUME IInv, NEW c \in Commands, StartRefused(c)
    PROVE  IInv'
<1>1. seq \in Nat /\ seq > 0 /\ seq + 1 \in Seqs
      BY BoundsAssumption DEF IInv, TypeOK, StartRefused, Seqs
<1>2. UNCHANGED <<pending, received, answers, stream, batch, call, initialized>>
      BY DEF StartRefused, debugger
<1>3. \A i \in DOMAIN pending : pending[i].seq < seq /\ pending[i].seq \in Nat
      BY EntryTyped DEF IInv, TableNumbered
<1>4. TypeOK'
      BY <1>1 DEF IInv, TypeOK, StartRefused, Result, Errors, debugger
<1>5. TableNumbered' /\ CallOwned' /\ DebuggerKnows' /\ MessagesTrue' /\ AnswerCredited'
      BY <1>1, <1>2, <1>3, TableUntouched
      DEF IInv, TableNumbered, CallOwned, MessagesTrue, StartRefused
<1>6. Returned'
      BY <1>1, <1>2 DEF IInv, CallOwned, Returned, StartRefused, Result
<1>7. ResultSound' /\ InitializedGranted'
  <2>1. \A r \in received \cup answers : r.seq # seq
        BY <1>1, <1>3 DEF IInv, DebuggerKnows, Registered
  <2> QED
      BY <1>2, <2>1 DEF IInv, ResultSound, InitializedGranted, StartRefused, Result
<1> QED
    BY <1>4, <1>5, <1>6, <1>7 DEF IInv

LEMMA SendRequestKeeps ==
    ASSUME IInv, SendRequest
    PROVE  IInv'
<1> DEFINE r == [seq |-> call.seq, cmd |-> call.cmd]
<1>1. /\ call.pc = "send" /\ call' = [call EXCEPT !.pc = "wait"]
      /\ received' = received \cup {r} \/ received' = received
      /\ UNCHANGED <<seq, pending, initialized, gotInitialized, timeout, batch, ret,
                     alive, stream, garbled, answers>>
      BY DEF SendRequest, Deliver
<1>2. /\ call.cmd # "process" /\ Registered(call.seq, call.cmd)
      /\ r.seq = call.seq /\ r.cmd = call.cmd
      BY <1>1 DEF IInv, CallOwned
<1>3. r \in Requests
      BY <1>1, <1>2, CommandsAssumption, EntryTyped
      DEF IInv, TypeOK, Registered, Requests
<1>4. /\ call'.pc = "wait" /\ call'.cmd = call.cmd /\ call'.seq = call.seq
      /\ call' \in [pc : Places, cmd : Commands \cup {"process"}, seq : Seqs \cup {0},
                    elapsed : Nat, hup : BOOLEAN]
      BY <1>1 DEF IInv, TypeOK, Places
<1>5. TypeOK'
      BY <1>1, <1>3, <1>4 DEF IInv, TypeOK
<1>6. \A s, c : Registered(s, c)' <=> Registered(s, c)
      BY <1>1 DEF Registered
<1>7. TableNumbered' /\ AnswerCredited' /\ InitializedGranted' /\ MessagesTrue'
      BY <1>1 DEF IInv, TableNumbered, AnswerCredited, InitializedGranted, MessagesTrue,
                  TrueMessages
<1>8. CallOwned' /\ Returned'
      BY <1>1, <1>2, <1>4, <1>6 DEF IInv, CallOwned, Returned, Registered
<1>9. DebuggerKnows'
  <2>1. \A q \in received' \cup answers' : q \in received \cup answers \/ q = r
        BY <1>1
  <2> QED
      BY <1>2, <1>6, <2>1 DEF IInv, DebuggerKnows
<1>10. ResultSound'
  <2>1. ret.seq # r.seq
        BY <1>2 DEF IInv, Returned
  <2> QED
      BY <1>1, <2>1 DEF IInv, ResultSound
<1> QED
    BY <1>5, <1>7, <1>8, <1>9, <1>10 DEF IInv

LEMMA SendFailsKeeps ==
    ASSUME IInv, SendFails
    PROVE  IInv'
<1>1. /\ call.pc = "send" /\ call' = Idle
      /\ ret' = Result(call.cmd, call.seq, "IO_ERROR")
      /\ garbled' \in BOOLEAN
      /\ UNCHANGED <<seq, pending, initialized, gotInitialized, timeout, batch,
                     alive, received, stream, answers>>
      BY DEF SendFails, IInv, TypeOK
<1>2. call.cmd # "process" /\ Registered(call.seq, call.cmd) /\ call.seq < seq
      BY <1>1 DEF IInv, CallOwned, Registered, TableNumbered
<1>3. call' \in [pc : Places, cmd : Commands \cup {"process"}, seq : Seqs \cup {0},
                 elapsed : Nat, hup : BOOLEAN]
      BY <1>1 DEF Idle, Places
<1>4. ret' \in [cmd : Commands \cup {"process"}, seq : Seqs \cup {0}, err : Errors]
      BY <1>1 DEF Result, Errors, IInv, TypeOK
<1>5. TypeOK'
      BY <1>1, <1>3, <1>4 DEF IInv, TypeOK
<1>6. TableNumbered' /\ AnswerCredited' /\ InitializedGranted' /\ MessagesTrue' /\ DebuggerKnows'
      BY <1>1, TableUntouched DEF IInv, TableNumbered, InitializedGranted, MessagesTrue
<1>7. CallOwned' /\ Returned'
      BY <1>1, <1>2 DEF CallOwned, Returned, Idle, Result
<1>8. ResultSound'
  <2>1. \A q \in received \cup answers : q.seq # call.seq
        BY <1>1 DEF IInv, CallOwned
  <2> QED
      BY <1>1, <2>1 DEF ResultSound, Result
<1> QED
    BY <1>5, <1>6, <1>7, <1>8 DEF IInv

LEMMA SendEventKeeps ==
    ASSUME IInv, SendEvent
    PROVE  IInv'
<1>1. /\ seq' = seq + 1 /\ seq \in Nat /\ seq' \in Seqs
      /\ UNCHANGED <<pending, initialized, gotInitialized, timeout, call, batch, ret,
                     alive, received, stream, garbled, answers>>
      BY BoundsAssumption DEF SendEvent, debugger, IInv, TypeOK, Seqs
<1>2. TypeOK'
      BY <1>1 DEF IInv, TypeOK
<1>3. \A i \in DOMAIN pending : pending[i].seq < seq /\ pending[i].seq \in Nat
      BY EntryTyped DEF IInv, TableNumbered
<1>4. ret.seq \in Nat
      BY BoundsAssumption DEF IInv, TypeOK, Seqs
<1>5. TableNumbered' /\ CallOwned' /\ DebuggerKnows' /\ Returned'
      BY <1>1, <1>3, <1>4, TableUntouched DEF IInv, TableNumbered, CallOwned, Returned
<1>6. MessagesTrue' /\ AnswerCredited' /\ ResultSound' /\ InitializedGranted'
      BY <1>1, TableUntouched DEF IInv, MessagesTrue, ResultSound, InitializedGranted
<1> QED
    BY <1>2, <1>5, <1>6 DEF IInv

LEMMA SetTimeoutKeeps ==
    ASSUME IInv, NEW t \in Timeouts, SetTimeout(t)
    PROVE  IInv'
<1>1. /\ timeout' = t
      /\ UNCHANGED <<seq, pending, initialized, gotInitialized, call, batch, ret,
                     alive, received, stream, garbled, answers>>
      BY DEF SetTimeout, debugger
<1>2. TypeOK'
      BY <1>1 DEF IInv, TypeOK
<1> QED
    BY <1>1, <1>2, TableUntouched DEF IInv, TableNumbered, CallOwned, Returned, MessagesTrue,
        ResultSound, InitializedGranted

\* A turn of the event loop, in a call or outside one, starts with a read.
LEMMA ReadKeeps ==
    ASSUME IInv, WaitPoll \/ ProcessMessages
    PROVE  IInv'
<1>1. /\ ReadSome
      /\ UNCHANGED <<seq, pending, initialized, gotInitialized, timeout, ret,
                     alive, received, garbled, answers>>
      BY DEF WaitPoll, ProcessMessages, ReadSome
<1>2. /\ call'.pc = "parse" /\ call'.cmd = call.cmd /\ call'.seq = call.seq
      /\ call' \in [pc : Places, cmd : Commands \cup {"process"}, seq : Seqs \cup {0},
                    elapsed : Nat, hup : BOOLEAN]
  <2>1. CASE WaitPoll
        BY <2>1 DEF WaitPoll, IInv, TypeOK, Places
  <2>2. CASE ProcessMessages
    <3>1. call.cmd = "process" /\ call.seq = 0
          BY <2>2 DEF ProcessMessages, IInv, CallOwned
    <3> QED
        BY <2>2, <3>1 DEF ProcessMessages, IInv, TypeOK, Idle, Places
  <2> QED
      BY <2>1, <2>2
<1>3. batch' \in Seq(Messages) /\ stream' \in Seq(Messages)
      BY <1>1, ReadSomeMoves DEF IInv, TypeOK
<1>4. batch' \in Seq(TrueMessages) /\ stream' \in Seq(TrueMessages)
      BY <1>1, ReadSomeMoves DEF IInv, MessagesTrue
<1>5. TypeOK'
      BY <1>1, <1>2, <1>3 DEF IInv, TypeOK
<1> QED
    BY <1>1, <1>2, <1>4, <1>5, TableUntouched
    DEF IInv, TableNumbered, CallOwned, Returned, MessagesTrue, ResultSound, InitializedGranted

\* The entry at i, with the answer ok.
Credited(i, ok) == [[pending[i] EXCEPT !.completed = TRUE] EXCEPT !.success = ok]

\* An entry that takes the answer to its number.
LEMMA CreditKeeps ==
    ASSUME IInv, NEW i \in DOMAIN pending, NEW a \in answers, a.seq = pending[i].seq,
           pending' = [pending EXCEPT ![i] = Credited(i, a.success)],
           UNCHANGED <<seq, answers, received>>
    PROVE  /\ pending' \in Seq(Entries) /\ Len(pending') = Len(pending)
           /\ DOMAIN pending' = DOMAIN pending
           /\ \A j \in DOMAIN pending : /\ pending'[j].seq = pending[j].seq
                                        /\ pending'[j].cmd = pending[j].cmd
           /\ a.cmd = pending[i].cmd
           /\ TableNumbered' /\ DebuggerKnows' /\ AnswerCredited'
<1> DEFINE e == Credited(i, a.success)
<1>1. pending \in Seq(Entries) /\ pending[i] \in Entries /\ i \in 1 .. Len(pending)
      /\ DOMAIN pending = 1 .. Len(pending)
      BY EntryTyped DEF IInv, TypeOK
<1>2. a \in Answers /\ a.success \in BOOLEAN
      BY DEF IInv, TypeOK, Answers
<1>3. /\ e \in Entries /\ e.seq = pending[i].seq /\ e.cmd = pending[i].cmd
      /\ e.completed /\ e.success = a.success
      BY <1>1, <1>2 DEF Entries, Credited
<1>4. pending' = [pending EXCEPT ![i] = e]
      OBVIOUS
<1> HIDE DEF e
<1>5. /\ pending' \in Seq(Entries) /\ Len(pending') = Len(pending)
      /\ pending'[i] = e
      /\ \A j \in DOMAIN pending : j # i => pending'[j] = pending[j]
  <2>1. pending' \in Seq(Entries) /\ Len(pending') = Len(pending)
        BY <1>1, <1>3, <1>4, ExceptSeq
  <2> QED
      BY <1>1, <1>4, <2>1
<1>6. DOMAIN pending' = DOMAIN pending
      BY <1>4
<1>7. \A j \in DOMAIN pending : /\ pending'[j].seq = pending[j].seq
                                /\ pending'[j].cmd = pending[j].cmd
      BY <1>3, <1>5
<1>8. a.cmd = pending[i].cmd
  <2>1. PICK k \in DOMAIN pending : pending[k].seq = a.seq /\ pending[k].cmd = a.cmd
        BY DEF IInv, DebuggerKnows, Registered
  <2>2. k = i
        BY <2>1 DEF IInv, TableNumbered
  <2> QED
      BY <2>1, <2>2
<1>9. TableNumbered'
      BY <1>3, <1>5, <1>6, <1>7 DEF IInv, TableNumbered
<1>10. DebuggerKnows'
      BY <1>6, <1>7 DEF IInv, DebuggerKnows, Registered
<1>11. AnswerCredited'
  <2>1. a = [seq |-> e.seq, cmd |-> e.cmd, success |-> e.success]
        BY <1>2, <1>3, <1>8 DEF Answers
  <2> SUFFICES ASSUME NEW j \in DOMAIN pending', pending'[j].completed
               PROVE  [seq |-> pending'[j].seq, cmd |-> pending'[j].cmd,
                       success |-> pending'[j].success] \in answers'
      BY DEF AnswerCredited
  <2>2. CASE j = i
    <3>1. pending'[j] = e
          BY <1>5, <2>2
    <3>2. [seq |-> e.seq, cmd |-> e.cmd, success |-> e.success] \in answers'
          BY <2>1
    <3> QED
        BY <3>1, <3>2
  <2>3. CASE j # i
        BY <1>5, <1>6, <2>3 DEF IInv, AnswerCredited
  <2> QED
      BY <2>2, <2>3
<1> QED
    BY <1>5, <1>6, <1>7, <1>8, <1>9, <1>10, <1>11

LEMMA ProcessMessageKeeps ==
    ASSUME IInv, ProcessMessage
    PROVE  IInv'
<1> DEFINE m == Head(batch)
<1>1. /\ batch # <<>> /\ batch' = Tail(batch) /\ call.pc = "parse"
      /\ UNCHANGED <<seq, timeout, call, ret, alive, received, stream, garbled, answers>>
      BY DEF ProcessMessage, debugger
<1>2. /\ m \in Messages /\ Tail(batch) \in Seq(Messages)
      /\ m \in TrueMessages /\ Tail(batch) \in Seq(TrueMessages)
      BY <1>1, HeadTailProperties DEF IInv, TypeOK, MessagesTrue
<1>3. TrueMessages' = TrueMessages
      BY <1>1 DEF TrueMessages
<1>4. MessagesTrue'
      BY <1>1, <1>2, <1>3 DEF IInv, MessagesTrue
<1>5. ResultSound' /\ Returned'
      BY <1>1 DEF IInv, ResultSound, Returned
<1>6. CASE UNCHANGED <<pending, initialized>> /\ gotInitialized' \in BOOLEAN
  <2>1. TypeOK'
        BY <1>1, <1>2, <1>6 DEF IInv, TypeOK
  <2> QED
      BY <1>1, <1>4, <1>5, <1>6, <2>1, TableUntouched
      DEF IInv, TableNumbered, CallOwned, InitializedGranted
<1>7. CASE m.type = "response" /\ HandleResponse(m) /\ ~NotFound(m.seq)
  <2>1. PICK i \in DOMAIN pending :
           /\ pending[i].seq = m.seq
           /\ pending' = [pending EXCEPT ![i] = Credited(i, m.success)]
           /\ initialized' = (initialized \/ (pending[i].cmd = "initialize" /\ m.success))
        BY <1>7 DEF HandleResponse, FoundAt, Credited
  <2>2. PICK a \in answers : a.seq = m.seq /\ a.success = m.success
        BY <1>2, <1>7 DEF TrueMessages
  <2>3. /\ pending' \in Seq(Entries) /\ Len(pending') = Len(pending)
        /\ DOMAIN pending' = DOMAIN pending
        /\ \A j \in DOMAIN pending : /\ pending'[j].seq = pending[j].seq
                                     /\ pending'[j].cmd = pending[j].cmd
        /\ a.cmd = pending[i].cmd
        /\ TableNumbered' /\ DebuggerKnows' /\ AnswerCredited'
        BY <1>1, <2>1, <2>2, CreditKeeps
  <2>4. a.success \in BOOLEAN
        BY DEF IInv, TypeOK, Answers
  <2>5. gotInitialized' = gotInitialized
        BY <1>7 DEF HandleResponse
  <2>6. TypeOK'
        BY <1>1, <1>2, <2>1, <2>2, <2>3, <2>4, <2>5 DEF IInv, TypeOK
  <2>7. CallOwned'
        BY <1>1, <2>3 DEF IInv, CallOwned, Registered
  <2>8. InitializedGranted'
        BY <1>1, <2>1, <2>2, <2>3 DEF IInv, InitializedGranted
  <2> QED
      BY <1>4, <1>5, <2>3, <2>6, <2>7, <2>8 DEF IInv
<1>8. QED
  <2>1. CASE m.type = "response" /\ HandleResponse(m) /\ NotFound(m.seq)
    <3>1. UNCHANGED <<pending, initialized, gotInitialized>>
          BY <2>1 DEF HandleResponse, NotFound, FoundAt
    <3> QED
        BY <1>6, <3>1 DEF IInv, TypeOK
  <2>2. CASE m.type = "event" /\ HandleEvent(m)
    <3>1. UNCHANGED <<pending, initialized>> /\ gotInitialized' \in BOOLEAN
          BY <2>2 DEF HandleEvent, IInv, TypeOK
    <3> QED
        BY <1>6, <3>1
  <2> QED
      BY <1>7, <2>1, <2>2 DEF ProcessMessage

LEMMA LoseMessageKeeps ==
    ASSUME IInv, LoseMessage
    PROVE  IInv'
<1>1. /\ batch # <<>> /\ batch' = Tail(batch)
      /\ UNCHANGED <<seq, pending, initialized, gotInitialized, timeout, call, ret,
                     alive, received, stream, garbled, answers>>
      BY DEF LoseMessage, debugger
<1>2. Tail(batch) \in Seq(Messages) /\ Tail(batch) \in Seq(TrueMessages)
      BY <1>1, HeadTailProperties DEF IInv, TypeOK, MessagesTrue
<1>3. TypeOK'
      BY <1>1, <1>2 DEF IInv, TypeOK
<1> QED
    BY <1>1, <1>2, <1>3, TableUntouched
    DEF IInv, TableNumbered, CallOwned, Returned, MessagesTrue, ResultSound, InitializedGranted

\* The entry of the call in progress is the only one with its number; a grant in it
\* is the debugger's.
LEMMA CallEntry ==
    ASSUME IInv, call.cmd # "process", NEW i \in DOMAIN pending, FoundAt(i, call.seq)
    PROVE  /\ pending[i].cmd = call.cmd /\ pending[i].seq = call.seq
           /\ pending[i].completed =>
                [seq |-> call.seq, cmd |-> call.cmd, success |-> pending[i].success] \in answers
           /\ pending[i].success => pending[i].completed
           /\ pending[i].success \in BOOLEAN
<1>1. pending[i].seq = call.seq
      BY DEF FoundAt
<1>2. PICK k \in DOMAIN pending : pending[k].seq = call.seq /\ pending[k].cmd = call.cmd
      BY DEF IInv, CallOwned, Registered
<1>3. k = i
      BY <1>1, <1>2 DEF IInv, TableNumbered
<1>4. pending[i].success \in BOOLEAN
      BY EntryTyped DEF IInv, Entries
<1> QED
    BY <1>1, <1>2, <1>3, <1>4 DEF IInv, TableNumbered, AnswerCredited

\* A call that returns err, when err is the debugger's word or says nothing of it.
LEMMA ReturnKeeps ==
    ASSUME IInv, call.cmd # "process", NEW err \in Errors, Return(err),
           err \notin {"IO_ERROR", "BUFFER_OVERFLOW"},
           err = "SUCCESS" =>
               [seq |-> call.seq, cmd |-> call.cmd, success |-> TRUE] \in answers,
           err = "REQUEST_FAILED" =>
               [seq |-> call.seq, cmd |-> call.cmd, success |-> FALSE] \in answers,
           UNCHANGED <<seq, pending, gotInitialized, timeout, batch,
                       alive, received, stream, garbled, answers>>
    PROVE  IInv'
<1>1. /\ ret' = Result(call.cmd, call.seq, err) /\ call' = Idle
      /\ initialized' = CASE call.cmd = "initialize" ->
                                initialized \/ \E i \in DOMAIN pending :
                                    FoundAt(i, call.seq) /\ pending[i].success
                          [] call.cmd = "disconnect" -> FALSE
                          [] OTHER -> initialized
      BY DEF Return
<1>2. call.seq < seq
      BY DEF IInv, CallOwned, Registered, TableNumbered
<1>3. call' \in [pc : Places, cmd : Commands \cup {"process"}, seq : Seqs \cup {0},
                 elapsed : Nat, hup : BOOLEAN]
      BY <1>1 DEF Idle, Places
<1>4. ret' \in [cmd : Commands \cup {"process"}, seq : Seqs \cup {0}, err : Errors]
      BY <1>1 DEF Result, IInv, TypeOK
<1>5. initialized' \in BOOLEAN /\ InitializedGranted'
  <2>1. CASE call.cmd = "initialize"
    <3>1. initialized' = (initialized \/ \E i \in DOMAIN pending :
                                             FoundAt(i, call.seq) /\ pending[i].success)
          BY <1>1, <2>1
    <3>2. ASSUME NEW i \in DOMAIN pending, FoundAt(i, call.seq), pending[i].success
          PROVE  \E a \in answers : a.cmd = "initialize" /\ a.success
      <4>1. [seq |-> call.seq, cmd |-> call.cmd, success |-> pending[i].success] \in answers
            BY <3>2, CallEntry
      <4> QED
          BY <2>1, <3>2, <4>1
    <3> QED
        BY <3>1, <3>2 DEF IInv, TypeOK, InitializedGranted
  <2>2. CASE call.cmd = "disconnect"
    <3>1. initialized' = FALSE
          BY <1>1, <2>2
    <3> QED
        BY <3>1 DEF InitializedGranted
  <2>3. CASE call.cmd # "initialize" /\ call.cmd # "disconnect"
    <3>1. initialized' = initialized
          BY <1>1, <2>3
    <3> QED
        BY <3>1 DEF IInv, TypeOK, InitializedGranted
  <2> QED
      BY <2>1, <2>2, <2>3
<1>6. TypeOK'
      BY <1>3, <1>4, <1>5 DEF IInv, TypeOK
<1>7. CallOwned' /\ Returned'
      BY <1>1, <1>2 DEF CallOwned, Returned, Idle, Result
<1>8. TableNumbered' /\ DebuggerKnows' /\ AnswerCredited' /\ MessagesTrue'
      BY TableUntouched DEF IInv, TableNumbered, MessagesTrue
<1>9. ResultSound'
      BY <1>1 DEF ResultSound, Result
<1> QED
    BY <1>5, <1>6, <1>7, <1>8, <1>9 DEF IInv

LEMMA PollDoneKeeps ==
    ASSUME IInv, PollDone
    PROVE  IInv'
<1>1. /\ call.pc = "parse"
      /\ UNCHANGED <<seq, pending, gotInitialized, timeout, batch,
                     alive, received, stream, garbled, answers>>
      BY DEF PollDone, debugger
<1>2. CASE call.cmd # "process" /\ call.hup /\ Return("CONNECTION_CLOSED")
      BY <1>1, <1>2, ReturnKeeps DEF Errors
<1>3. CASE /\ call.cmd # "process"
           /\ call' = [call EXCEPT !.pc = "wait", !.elapsed = @ + 1]
           /\ UNCHANGED <<initialized, ret>>
  <2>1. /\ call'.pc = "wait" /\ call'.cmd = call.cmd /\ call'.seq = call.seq
        /\ call' \in [pc : Places, cmd : Commands \cup {"process"}, seq : Seqs \cup {0},
                      elapsed : Nat, hup : BOOLEAN]
    <3>1. call.elapsed + 1 \in Nat
          BY DEF IInv, TypeOK
    <3> QED
        BY <1>3, <3>1 DEF IInv, TypeOK, Places
  <2>2. TypeOK'
        BY <1>1, <1>3, <2>1 DEF IInv, TypeOK
  <2> QED
      BY <1>1, <1>3, <2>1, <2>2, TableUntouched
      DEF IInv, TableNumbered, CallOwned, Returned, MessagesTrue, ResultSound, InitializedGranted
<1>4. CASE /\ call.cmd = "process" /\ call' = Idle /\ UNCHANGED initialized
           /\ ret' = Result("process", 0, IF call.hup THEN "CONNECTION_CLOSED" ELSE "SUCCESS")
  <2>1. call' \in [pc : Places, cmd : Commands \cup {"process"}, seq : Seqs \cup {0},
                   elapsed : Nat, hup : BOOLEAN]
        BY <1>4 DEF Idle, Places
  <2>2. /\ ret' \in [cmd : Commands \cup {"process"}, seq : Seqs \cup {0}, err : Errors]
        /\ ret'.cmd = "process" /\ ret'.seq = 0
        BY <1>4 DEF Result, Errors
  <2>3. TypeOK'
        BY <1>1, <1>4, <2>1, <2>2 DEF IInv, TypeOK
  <2>4. seq \in Nat /\ seq > 0
        BY BoundsAssumption DEF IInv, TypeOK, Seqs
  <2>5. CallOwned' /\ Returned' /\ ResultSound'
        BY <1>1, <1>4, <2>2, <2>4 DEF CallOwned, Returned, ResultSound, Idle
  <2> QED
      BY <1>1, <1>4, <2>3, <2>5, TableUntouched
      DEF IInv, TableNumbered, MessagesTrue, InitializedGranted
<1> QED
    BY <1>2, <1>3, <1>4 DEF PollDone

LEMMA WaitOverKeeps ==
    ASSUME IInv, WaitOver
    PROVE  IInv'
<1>1. /\ call.pc = "wait"
      /\ UNCHANGED <<seq, pending, gotInitialized, timeout, batch,
                     alive, received, stream, garbled, answers>>
      BY DEF WaitOver, debugger
<1>2. call.cmd # "process"
      BY <1>1 DEF IInv, CallOwned
<1>3. PICK i \in DOMAIN pending :
         /\ FoundAt(i, call.seq)
         /\ \/ Return("TIMEOUT")
            \/ pending[i].completed /\ ~pending[i].success /\ Return("REQUEST_FAILED")
            \/ pending[i].completed /\ pending[i].success /\ Return("SUCCESS")
      BY DEF WaitOver
<1>4. pending[i].success \in BOOLEAN /\
      (pending[i].completed =>
         [seq |-> call.seq, cmd |-> call.cmd, success |-> pending[i].success] \in answers)
      BY <1>2, <1>3, CallEntry
<1>5. CASE Return("TIMEOUT")
      BY <1>1, <1>2, <1>5, ReturnKeeps DEF Errors
<1>6. CASE pending[i].completed /\ ~pending[i].success /\ Return("REQUEST_FAILED")
  <2>1. pending[i].success = FALSE
        BY <1>4, <1>6
  <2>2. [seq |-> call.seq, cmd |-> call.cmd, success |-> FALSE] \in answers
        BY <1>4, <1>6, <2>1
  <2> QED
      BY <1>1, <1>2, <1>6, <2>2, ReturnKeeps DEF Errors
<1>7. CASE pending[i].completed /\ pending[i].success /\ Return("SUCCESS")
  <2>1. pending[i].success = TRUE
        BY <1>4, <1>7
  <2>2. [seq |-> call.seq, cmd |-> call.cmd, success |-> TRUE] \in answers
        BY <1>4, <1>7, <2>1
  <2> QED
      BY <1>1, <1>2, <1>7, <2>2, ReturnKeeps DEF Errors
<1> QED
    BY <1>3, <1>5, <1>6, <1>7

LEMMA AnswerKeeps ==
    ASSUME IInv, NEW r \in received, NEW ok \in BOOLEAN, Answer(r, ok)
    PROVE  IInv'
<1> DEFINE a == [seq |-> r.seq, cmd |-> r.cmd, success |-> ok]
           m == [type |-> "response", seq |-> r.seq, success |-> ok]
<1>1. /\ received' = received \ {r} /\ stream' = Append(stream, m)
      /\ answers' = answers \cup {a}
      /\ UNCHANGED <<seq, pending, initialized, gotInitialized, timeout, call, batch, ret,
                     alive, garbled>>
      BY DEF Answer, client
<1>2. r \in Requests /\ a \in Answers /\ m \in Messages
      BY DEF IInv, TypeOK, Requests, Answers, Messages
<1>3. TypeOK'
  <2>1. stream' \in Seq(Messages)
        BY <1>1, <1>2, AppendProperties DEF IInv, TypeOK
  <2> QED
      BY <1>1, <1>2, <2>1 DEF IInv, TypeOK
<1>4. MessagesTrue'
  <2>1. batch \in Seq(TrueMessages') /\ stream \in Seq(TrueMessages')
        BY <1>1, TrueMessagesGrow DEF IInv, MessagesTrue
  <2>2. a.seq = m.seq /\ a.success = m.success /\ a \in answers'
        BY <1>1
  <2>3. m \in TrueMessages'
        BY <1>2, <2>2 DEF TrueMessages, Messages
  <2> QED
      BY <1>1, <2>1, <2>3, AppendProperties DEF MessagesTrue
<1>5. \A q \in received' \cup answers' :
         \E p \in received \cup answers : p.seq = q.seq /\ p.cmd = q.cmd
      BY <1>1
<1>6. \A s, c : Registered(s, c)' <=> Registered(s, c)
      BY <1>1 DEF Registered
<1>7. DebuggerKnows'
      BY <1>5, <1>6 DEF IInv, DebuggerKnows
<1>8. TableNumbered' /\ CallOwned' /\ Returned'
      BY <1>1, <1>5 DEF IInv, TableNumbered, CallOwned, Returned, Registered
<1>9. AnswerCredited' /\ InitializedGranted'
      BY <1>1 DEF IInv, AnswerCredited, InitializedGranted
<1>10. ResultSound'
      BY <1>1, <1>5 DEF IInv, ResultSound
<1> QED
    BY <1>3, <1>4, <1>7, <1>8, <1>9, <1>10 DEF IInv

LEMMA EmitKeeps ==
    ASSUME IInv, NEW e \in EventNames, Emit(e)
    PROVE  IInv'
<1> DEFINE m == [type |-> "event", event |-> e]
<1>1. /\ stream' = Append(stream, m)
      /\ UNCHANGED <<seq, pending, initialized, gotInitialized, timeout, call, batch, ret,
                     alive, received, garbled, answers>>
      BY DEF Emit, client
<1>2. m \in Messages /\ m \in TrueMessages
      BY DEF Messages, TrueMessages
<1>3. stream' \in Seq(Messages) /\ stream' \in Seq(TrueMessages)
      BY <1>1, <1>2, AppendProperties DEF IInv, TypeOK, MessagesTrue
<1>4. TypeOK'
      BY <1>1, <1>3 DEF IInv, TypeOK
<1> QED
    BY <1>1, <1>3, <1>4, TableUntouched
    DEF IInv, TableNumbered, CallOwned, Returned, MessagesTrue, ResultSound, InitializedGranted

LEMMA ExitKeeps ==
    ASSUME IInv, Exit
    PROVE  IInv'
<1>1. /\ alive' = FALSE
      /\ UNCHANGED <<seq, pending, initialized, gotInitialized, timeout, call, batch, ret,
                     received, stream, garbled, answers>>
      BY DEF Exit, client
<1>2. TypeOK'
      BY <1>1 DEF IInv, TypeOK
<1> QED
    BY <1>1, <1>2, TableUntouched
    DEF IInv, TableNumbered, CallOwned, Returned, MessagesTrue, ResultSound, InitializedGranted

LEMMA StutterKeeps ==
    ASSUME IInv, UNCHANGED vars
    PROVE  IInv'
<1>1. UNCHANGED <<seq, pending, initialized, gotInitialized, timeout, call, batch, ret,
                  alive, received, stream, garbled, answers>>
      BY DEF vars
<1>2. TypeOK'
      BY <1>1 DEF IInv, TypeOK
<1> QED
    BY <1>1, <1>2, TableUntouched
    DEF IInv, TableNumbered, CallOwned, Returned, MessagesTrue, ResultSound, InitializedGranted

-----------------------------------------------------------------------------
(* The theorems.                                                             *)

\* The invariant is inductive: the numbers of the table, the debugger's knowledge of
\* them and the messages on their way stay in step through every action.
THEOREM Inductive == Spec => []IInv
<1>1. Init => IInv
      BY InitIInv
<1>2. IInv /\ [Next]_vars => IInv'
  <2> SUFFICES ASSUME IInv, [Next]_vars PROVE IInv'
      OBVIOUS
  <2>1. ASSUME NEW c \in Commands, Start(c) PROVE IInv'
        BY <2>1, StartKeeps
  <2>2. ASSUME NEW c \in Commands, StartRefused(c) PROVE IInv'
        BY <2>2, StartRefusedKeeps
  <2>3. ASSUME NEW t \in Timeouts, SetTimeout(t) PROVE IInv'
        BY <2>3, SetTimeoutKeeps
  <2>4. CASE SendEvent
        BY <2>4, SendEventKeeps
  <2>5. CASE ProcessMessages \/ WaitPoll
        BY <2>5, ReadKeeps
  <2>6. CASE SendRequest
        BY <2>6, SendRequestKeeps
  <2>7. CASE SendFails
        BY <2>7, SendFailsKeeps
  <2>8. CASE ProcessMessage
        BY <2>8, ProcessMessageKeeps
  <2>9. CASE LoseMessage
        BY <2>9, LoseMessageKeeps
  <2>10. CASE PollDone
        BY <2>10, PollDoneKeeps
  <2>11. CASE WaitOver
        BY <2>11, WaitOverKeeps
  <2>12. ASSUME NEW r \in received, NEW ok \in BOOLEAN, Answer(r, ok) PROVE IInv'
        BY <2>12, AnswerKeeps
  <2>13. ASSUME NEW e \in EventNames, Emit(e) PROVE IInv'
        BY <2>13, EmitKeeps
  <2>14. CASE Exit
        BY <2>14, ExitKeeps
  <2>15. CASE UNCHANGED vars
        BY <2>15, StutterKeeps
  <2> QED
      BY <2>1, <2>2, <2>3, <2>4, <2>5, <2>6, <2>7, <2>8, <2>9, <2>10, <2>11, <2>12, <2>13,
         <2>14, <2>15
      DEF Next, ClientStep, CallStep, DebuggerStep
<1> QED
    BY <1>1, <1>2, PTL DEF Spec

\* Every variable keeps its type: the table never outgrows its limit, the numbers never
\* leave their range, and only messages of the protocol are in the pipe and the batch.
THEOREM TypeCorrect == Spec => []TypeOK
<1>1. IInv => TypeOK
      BY DEF IInv
<1> QED
    BY <1>1, Inductive, PTL

\* For every number of requests in flight, timed out or refused: a completed entry holds
\* what the debugger answered to that number and that command.
THEOREM AnswersAreCredited == Spec => []AnswerCredited
<1>1. IInv => AnswerCredited
      BY DEF IInv
<1> QED
    BY <1>1, Inductive, PTL

\* What a command returns is the debugger's word on that very request, and a request
\* reported as not sent never reached the debugger.
THEOREM ResultsAreSound == Spec => []ResultSound
<1>1. IInv => ResultSound
      BY DEF IInv
<1> QED
    BY <1>1, Inductive, PTL

\* The client counts itself initialized only if the debugger granted an initialize.
THEOREM InitializedIsGranted == Spec => []InitializedGranted
<1>1. IInv => InitializedGranted
      BY DEF IInv
<1> QED
    BY <1>1, Inductive, PTL

-----------------------------------------------------------------------------
(* The client implements RemoteCall: its initial states are initial states  *)
(* there, and each of its steps is a step there or leaves everything         *)
(* RemoteCall sees as it was.  Sending, reading the pipe and handling a      *)
(* message are such stutters; what RemoteCall needs beside IInv is that the  *)
(* debugger answers a number once.                                           *)

\* A number has one answer, and none while the request is still with the debugger.
AnsweredOnce ==
    /\ \A a, b \in answers : a.seq = b.seq => a = b
    /\ \A a \in answers, r \in received : a.seq # r.seq

\* A number was registered for one command, so the debugger has one request of it.
LEMMA OneRequest ==
    ASSUME IInv, NEW q \in received, NEW r \in received, q.seq = r.seq
    PROVE  q = r
<1>1. q \in Requests /\ r \in Requests
      BY DEF IInv, TypeOK
<1>2. PICK i \in DOMAIN pending : pending[i].seq = q.seq /\ pending[i].cmd = q.cmd
      BY DEF IInv, DebuggerKnows, Registered
<1>3. PICK j \in DOMAIN pending : pending[j].seq = r.seq /\ pending[j].cmd = r.cmd
      BY DEF IInv, DebuggerKnows, Registered
<1>4. i = j
      BY <1>2, <1>3 DEF IInv, TableNumbered
<1> QED
    BY <1>1, <1>2, <1>3, <1>4 DEF Requests

LEMMA AnsweredOnceKept == IInv /\ AnsweredOnce /\ [Next]_vars => AnsweredOnce'
<1> SUFFICES ASSUME IInv, AnsweredOnce, [Next]_vars PROVE AnsweredOnce'
    OBVIOUS
<1>1. CASE UNCHANGED <<received, answers>>
      BY <1>1 DEF AnsweredOnce
<1>2. CASE SendRequest
  <2> DEFINE r == [seq |-> call.seq, cmd |-> call.cmd]
  <2>1. answers' = answers /\ received' \subseteq received \cup {r}
        BY <1>2 DEF SendRequest, Deliver
  <2>2. \A a \in answers : a.seq # r.seq
        BY <1>2 DEF SendRequest, IInv, CallOwned
  <2> QED
      BY <2>1, <2>2 DEF AnsweredOnce
<1>3. ASSUME NEW r \in received, NEW ok \in BOOLEAN, Answer(r, ok)
      PROVE  AnsweredOnce'
  <2> DEFINE n == [seq |-> r.seq, cmd |-> r.cmd, success |-> ok]
  <2>1. answers' = answers \cup {n} /\ received' = received \ {r} /\ n.seq = r.seq
        BY <1>3 DEF Answer
  <2>2. \A a \in answers : a.seq # n.seq
        BY DEF AnsweredOnce
  <2>3. \A q \in received' : q.seq # n.seq
        BY <2>1, OneRequest
  <2> QED
      BY <2>1, <2>2, <2>3 DEF AnsweredOnce
<1>4. QED
  <2>1. CASE ClientStep /\ ~SendRequest
        BY <1>1, <2>1 DEF ClientStep, CallStep, Start, StartRefused, SetTimeout, SendEvent,
            ProcessMessages, SendFails, WaitPoll, ReadSome, ProcessMessage, LoseMessage,
            PollDone, WaitOver, debugger
  <2>2. CASE \E e \in EventNames : Emit(e)
        BY <1>1, <2>2 DEF Emit
  <2>3. CASE Exit
        BY <1>1, <2>3 DEF Exit
  <2>4. CASE UNCHANGED vars
        BY <1>1, <2>4 DEF vars
  <2> QED
      BY <1>2, <1>3, <2>1, <2>2, <2>3, <2>4 DEF Next, DebuggerStep

-----------------------------------------------------------------------------
\* What RemoteCall sees is a function of these.
LEMMA Unseen ==
    ASSUME UNCHANGED <<pending, answers, ret>>, call'.seq = call.seq
    PROVE  UNCHANGED Remote!vars
BY DEF Remote!vars, Issued, Answered, Outcome

\* The call in progress, and only it, has a number.
LEMMA Current ==
    ASSUME IInv
    PROVE  /\ call.cmd = "process" <=> call.seq = 0
           /\ call.pc = "idle" => call.seq = 0
           /\ call.pc \in {"send", "wait"} => call.seq # 0
BY EntryTyped DEF IInv, CallOwned, Registered

LEMMA StartIssues ==
    ASSUME IInv, NEW c \in Commands, Start(c)
    PROVE  Remote!Issue(seq)
<1> DEFINE e == Entry(seq, c)
<1>1. seq \in Seqs /\ call.seq = 0
      BY Current DEF IInv, TypeOK, Start
<1>2. e \in Entries /\ e.seq = seq
      BY <1>1 DEF Entry, Entries
<1>3. pending' = Append(pending, e) /\ call'.seq = seq /\ UNCHANGED <<answers, ret>>
      BY DEF Start, Idle, debugger
<1>4. seq \notin Issued
      BY BoundsAssumption DEF IInv, TypeOK, TableNumbered, Issued, Seqs
<1>5. Issued' = Issued \cup {seq}
  <2> DEFINE n == Len(pending)
  <2>1. /\ DOMAIN pending = 1 .. n /\ n \in Nat
        /\ DOMAIN pending' = 1 .. (n + 1)
        /\ \A i \in DOMAIN pending : pending'[i] = pending[i]
        /\ pending'[n + 1].seq = seq
        BY <1>2, <1>3, AppendEntry DEF IInv, TypeOK
  <2>2. \A s : s \in Issued' <=> \E i \in DOMAIN pending' : s = pending'[i].seq
        BY DEF Issued
  <2>3. \A s : s \in Issued <=> \E i \in DOMAIN pending : s = pending[i].seq
        BY DEF Issued
  <2>4. \A i : i \in DOMAIN pending' <=> i \in DOMAIN pending \/ i = n + 1
        BY <2>1
  <2>5. \A s : s \in Issued' <=> s \in Issued \/ s = seq
        BY <2>1, <2>2, <2>3, <2>4
  <2> QED
      BY <2>5
<1> QED
    BY <1>1, <1>3, <1>4, <1>5 DEF Remote!Issue, Answered, Outcome

LEMMA StartRefusedRefuses ==
    ASSUME IInv, NEW c \in Commands, StartRefused(c)
    PROVE  Remote!Refuse(seq)
<1>1. /\ UNCHANGED <<pending, answers, call>> /\ call.seq = 0
      /\ ret' = Result(c, seq, "BUFFER_OVERFLOW") /\ c # "process"
      BY Current, CommandsAssumption DEF StartRefused, debugger
<1>2. seq \notin Issued
      BY BoundsAssumption DEF IInv, TypeOK, TableNumbered, Issued, Seqs
<1>3. Outcome' = [id |-> seq, is |-> "gaveUp"]
      BY <1>1 DEF Outcome, Result
<1> QED
    BY <1>1, <1>2, <1>3 DEF Remote!Refuse, Issued, Answered

\* A call that returns err finishes with what err stands for.
LEMMA ReturnFinishes ==
    ASSUME IInv, call.cmd # "process", UNCHANGED <<pending, answers>>,
           NEW err \in Errors, call'.seq = 0, ret' = Result(call.cmd, call.seq, err),
           err = "SUCCESS" =>
               [seq |-> call.seq, cmd |-> call.cmd, success |-> TRUE] \in answers,
           err = "REQUEST_FAILED" =>
               [seq |-> call.seq, cmd |-> call.cmd, success |-> FALSE] \in answers
    PROVE  Remote!Finish
<1>1. call.seq # 0
      BY Current
<1>2. UNCHANGED <<Issued, Answered>>
      BY DEF Issued, Answered
<1>3. CASE err = "SUCCESS"
  <2>1. [id |-> call.seq, ok |-> TRUE] \in Answered
    <3>1. PICK a \in answers : a.seq = call.seq /\ a.success = TRUE
          BY <1>3
    <3> QED
        BY <3>1 DEF Answered
  <2>2. Outcome' = [id |-> call.seq, is |-> "ok"]
        BY <1>3 DEF Outcome, Result
  <2> QED
      BY <1>1, <1>2, <2>1, <2>2 DEF Remote!Finish
<1>4. CASE err = "REQUEST_FAILED"
  <2>1. [id |-> call.seq, ok |-> FALSE] \in Answered
    <3>1. PICK a \in answers : a.seq = call.seq /\ a.success = FALSE
          BY <1>4
    <3> QED
        BY <3>1 DEF Answered
  <2>2. Outcome' = [id |-> call.seq, is |-> "failed"]
        BY <1>4 DEF Outcome, Result
  <2> QED
      BY <1>1, <1>2, <2>1, <2>2 DEF Remote!Finish
<1>5. CASE err # "SUCCESS" /\ err # "REQUEST_FAILED"
  <2>1. Outcome' = [id |-> call.seq, is |-> "gaveUp"]
        BY <1>5 DEF Outcome, Result
  <2> QED
      BY <1>1, <1>2, <2>1 DEF Remote!Finish
<1> QED
    BY <1>3, <1>4, <1>5

LEMMA SendFailsFinishes ==
    ASSUME IInv, SendFails
    PROVE  Remote!Finish
<1>1. /\ call.cmd # "process" /\ call'.seq = 0 /\ UNCHANGED <<pending, answers>>
      /\ ret' = Result(call.cmd, call.seq, "IO_ERROR")
      BY DEF SendFails, Idle, IInv, CallOwned
<1> QED
    BY <1>1, ReturnFinishes DEF Errors

LEMMA PollDoneMaps ==
    ASSUME IInv, PollDone
    PROVE  Remote!Finish \/ Remote!Forget \/ UNCHANGED Remote!vars
<1>1. UNCHANGED <<pending, answers>>
      BY DEF PollDone, debugger
<1>2. CASE call.cmd # "process" /\ call.hup /\ Return("CONNECTION_CLOSED")
      BY <1>1, <1>2, ReturnFinishes DEF Return, Idle, Errors
<1>3. CASE call' = [call EXCEPT !.pc = "wait", !.elapsed = @ + 1] /\ ret' = ret
  <2>1. call'.seq = call.seq
        BY <1>3 DEF IInv, TypeOK
  <2> QED
      BY <1>1, <1>3, <2>1, Unseen
<1>4. CASE call.cmd = "process" /\ call' = Idle /\ ret'.cmd = "process"
  <2>1. call'.seq = call.seq
        BY <1>4, Current DEF Idle
  <2> QED
      BY <1>1, <1>4, <2>1 DEF Remote!Forget, Remote!NoOutcome, Issued, Answered, Outcome
<1> QED
    BY <1>2, <1>3, <1>4 DEF PollDone, Result

LEMMA WaitOverFinishes ==
    ASSUME IInv, WaitOver
    PROVE  Remote!Finish
<1>1. call.cmd # "process" /\ UNCHANGED <<pending, answers>>
      BY DEF WaitOver, debugger, IInv, CallOwned
<1>2. PICK i \in DOMAIN pending :
         /\ FoundAt(i, call.seq)
         /\ \/ Return("TIMEOUT")
            \/ pending[i].completed /\ ~pending[i].success /\ Return("REQUEST_FAILED")
            \/ pending[i].completed /\ pending[i].success /\ Return("SUCCESS")
      BY DEF WaitOver
<1>3. pending[i].success \in BOOLEAN /\
      (pending[i].completed =>
         [seq |-> call.seq, cmd |-> call.cmd, success |-> pending[i].success] \in answers)
      BY <1>1, <1>2, CallEntry
<1>4. CASE Return("TIMEOUT")
      BY <1>1, <1>4, ReturnFinishes DEF Return, Idle, Errors
<1>5. CASE pending[i].completed /\ ~pending[i].success /\ Return("REQUEST_FAILED")
  <2>1. pending[i].success = FALSE
        BY <1>3, <1>5
  <2>2. [seq |-> call.seq, cmd |-> call.cmd, success |-> FALSE] \in answers
        BY <1>3, <1>5, <2>1
  <2> QED
      BY <1>1, <1>5, <2>2, ReturnFinishes DEF Return, Idle, Errors
<1>6. CASE pending[i].completed /\ pending[i].success /\ Return("SUCCESS")
  <2>1. pending[i].success = TRUE
        BY <1>3, <1>6
  <2>2. [seq |-> call.seq, cmd |-> call.cmd, success |-> TRUE] \in answers
        BY <1>3, <1>6, <2>1
  <2> QED
      BY <1>1, <1>6, <2>2, ReturnFinishes DEF Return, Idle, Errors
<1> QED
    BY <1>2, <1>4, <1>5, <1>6

LEMMA AnswerAnswers ==
    ASSUME IInv, AnsweredOnce, NEW r \in received, NEW ok \in BOOLEAN, Answer(r, ok)
    PROVE  r.seq \in Seqs /\ Remote!Answer(r.seq, ok)
<1>1. /\ answers' = answers \cup {[seq |-> r.seq, cmd |-> r.cmd, success |-> ok]}
      /\ UNCHANGED <<pending, call, ret>>
      BY DEF Answer, client
<1>2. r.seq \in Seqs /\ r.seq \in Issued
      BY DEF IInv, TypeOK, Requests, DebuggerKnows, Registered, Issued
<1>3. \A a \in Answered : a.id # r.seq
      BY DEF AnsweredOnce, Answered
<1>4. Answered' = Answered \cup {[id |-> r.seq, ok |-> ok]}
  <2> DEFINE n == [seq |-> r.seq, cmd |-> r.cmd, success |-> ok]
  <2>1. n.seq = r.seq /\ n.success = ok
        OBVIOUS
  <2>2. \A x : x \in Answered' <=> \E a \in answers' : x = [id |-> a.seq, ok |-> a.success]
        BY DEF Answered
  <2>3. \A x : x \in Answered <=> \E a \in answers : x = [id |-> a.seq, ok |-> a.success]
        BY DEF Answered
  <2> HIDE DEF n
  <2>4. \A x : x \in Answered' <=> x \in Answered \/ x = [id |-> n.seq, ok |-> n.success]
        BY <1>1, <2>2, <2>3 DEF n
  <2>5. Answered' = Answered \cup {[id |-> n.seq, ok |-> n.success]}
        BY <2>4
  <2> QED
      BY <2>1, <2>5
<1> QED
    BY <1>1, <1>2, <1>3, <1>4 DEF Remote!Answer, Issued, Outcome

\* Handling a response changes no number of the table.
LEMMA ProcessMessageUnseen ==
    ASSUME IInv, ProcessMessage
    PROVE  UNCHANGED Remote!vars
<1>1. UNCHANGED <<call, answers, ret>>
      BY DEF ProcessMessage, debugger
<1>2. Issued' = Issued
  <2>1. CASE pending' = pending
        BY <2>1 DEF Issued
  <2>2. CASE \E i \in DOMAIN pending, ok \in BOOLEAN :
                pending' = [pending EXCEPT ![i] = Credited(i, ok)]
    <3>1. PICK i \in DOMAIN pending, ok \in BOOLEAN :
             pending' = [pending EXCEPT ![i] = Credited(i, ok)]
          BY <2>2
    <3>2. Credited(i, ok).seq = pending[i].seq
          BY EntryTyped DEF IInv, Credited, Entries
    <3>3. DOMAIN pending' = DOMAIN pending
          BY <3>1
    <3>4. \A j \in DOMAIN pending : pending'[j].seq = pending[j].seq
          BY <3>1, <3>2
    <3> QED
        BY <3>3, <3>4 DEF Issued
  <2>3. Head(batch) \in Messages
        BY HeadTailProperties DEF ProcessMessage, IInv, TypeOK
  <2>4. CASE Head(batch).type = "response" /\ HandleResponse(Head(batch))
    <3>1. Head(batch).success \in BOOLEAN
          BY <2>3, <2>4 DEF Messages
    <3> QED
        BY <2>1, <2>2, <2>4, <3>1 DEF HandleResponse, Credited
  <2>5. CASE HandleEvent(Head(batch))
        BY <2>1, <2>5 DEF HandleEvent
  <2> QED
      BY <2>4, <2>5 DEF ProcessMessage
<1> QED
    BY <1>1, <1>2 DEF Remote!vars, Answered, Outcome

-----------------------------------------------------------------------------
\* The client implements RemoteCall, for every set of commands, every limit of the
\* table, every timeout, and a debugger that answers late, out of order or never.
THEOREM ClientIsRemoteCall == Spec => ImplementsRemoteCall
<1>1. Init => Remote!Init /\ AnsweredOnce
  <2>1. ASSUME Init PROVE Issued = {} /\ Answered = {}
        BY <2>1 DEF Init, Issued, Answered
  <2>2. ASSUME Init PROVE call.seq = 0 /\ Outcome = [id |-> 0, is |-> "none"]
        BY <2>2 DEF Init, Outcome, Result, Idle
  <2>3. ASSUME Init PROVE AnsweredOnce
        BY <2>3 DEF Init, AnsweredOnce
  <2> QED
      BY <2>1, <2>2, <2>3 DEF Remote!Init, Remote!NoOutcome
<1>2. IInv /\ AnsweredOnce /\ [Next]_vars => [Remote!Next]_(Remote!vars)
  <2> SUFFICES ASSUME IInv, AnsweredOnce, [Next]_vars
               PROVE  Remote!Next \/ UNCHANGED Remote!vars
      OBVIOUS
  <2>1. ASSUME NEW c \in Commands, Start(c) \/ StartRefused(c) PROVE Remote!Next
    <3>1. seq \in Seqs
          BY DEF IInv, TypeOK
    <3> QED
        BY <2>1, <3>1, StartIssues, StartRefusedRefuses DEF Remote!Next
  <2>2. CASE SendFails \/ WaitOver
        BY <2>2, SendFailsFinishes, WaitOverFinishes DEF Remote!Next
  <2>3. CASE PollDone
        BY <2>3, PollDoneMaps DEF Remote!Next
  <2>4. CASE ProcessMessage
        BY <2>4, ProcessMessageUnseen
  <2>5. CASE SendRequest \/ WaitPoll \/ ProcessMessages
    <3>1. UNCHANGED <<pending, answers, ret>>
          BY <2>5 DEF SendRequest, WaitPoll, ProcessMessages, ReadSome
    <3>2. call'.seq = call.seq
          BY <2>5, Current DEF SendRequest, WaitPoll, ProcessMessages, Idle, IInv, TypeOK
    <3> QED
        BY <3>1, <3>2, Unseen
  <2>6. CASE SendEvent \/ LoseMessage \/ (\E t \in Timeouts : SetTimeout(t))
        BY <2>6, Unseen DEF SendEvent, LoseMessage, SetTimeout, debugger
  <2>7. ASSUME NEW r \in received, NEW ok \in BOOLEAN, Answer(r, ok) PROVE Remote!Next
        BY <2>7, AnswerAnswers DEF Remote!Next
  <2>8. CASE Exit \/ (\E e \in EventNames : Emit(e))
        BY <2>8, Unseen DEF Exit, Emit, client
  <2>9. CASE UNCHANGED vars
        BY <2>9, Unseen DEF vars
  <2> QED
      BY <2>1, <2>2, <2>3, <2>4, <2>5, <2>6, <2>7, <2>8, <2>9
      DEF Next, ClientStep, CallStep, DebuggerStep
<1> QED
    BY <1>1, <1>2, Inductive, AnsweredOnceKept, PTL DEF Spec, ImplementsRemoteCall, Remote!Spec

-----------------------------------------------------------------------------
\* An answer handled twice, or for an entry that has one, could only repeat it: the debugger
\* answers a number once.
LEMMA CompletedKept ==
    ASSUME IInv, AnsweredOnce, Next, NEW i \in DOMAIN pending, pending[i].completed
    PROVE  pending'[i] = pending[i]
<1>1. /\ pending[i] \in Entries /\ pending \in Seq(Entries)
      /\ Entries = [seq : Seqs, cmd : Commands, completed : BOOLEAN, success : BOOLEAN]
      /\ DOMAIN pending = 1 .. Len(pending)
      BY EntryTyped DEF IInv, TypeOK, Entries
<1>2. CASE UNCHANGED pending
      BY <1>2
<1>3. ASSUME NEW c \in Commands, Start(c)
      PROVE  pending'[i] = pending[i]
  <2>1. Entry(seq, c) \in Entries
        BY <1>1 DEF Entry, IInv, TypeOK
  <2> QED
      BY <1>1, <1>3, <2>1, AppendEntry DEF Start
<1>4. CASE ProcessMessage /\ ~UNCHANGED pending
  <2> DEFINE m == Head(batch)
  <2>1. m \in TrueMessages
        BY <1>4, HeadTailProperties DEF ProcessMessage, IInv, MessagesTrue
  <2>2. m.type = "response" /\ HandleResponse(m)
        BY <1>4 DEF ProcessMessage, HandleEvent
  <2>3. PICK a \in answers : a.seq = m.seq /\ a.success = m.success
        BY <2>1, <2>2 DEF TrueMessages
  <2>4. PICK k \in DOMAIN pending :
           pending[k].seq = m.seq /\ pending' = [pending EXCEPT ![k] = Credited(k, m.success)]
        BY <1>4, <2>2 DEF HandleResponse, FoundAt, Credited
  <2> HIDE DEF m
  <2>5. CASE k # i
        BY <1>1, <2>4, <2>5
  <2>6. CASE k = i
    <3> DEFINE b == [seq |-> pending[i].seq, cmd |-> pending[i].cmd,
                     success |-> pending[i].success]
    <3>1. b \in answers
          BY DEF IInv, AnswerCredited
    <3>2. b = a
          BY <2>3, <2>4, <2>6, <3>1 DEF AnsweredOnce
    <3>3. m.success = pending[i].success
          BY <2>3, <3>2
    <3>4. Credited(i, m.success) = pending[i]
          BY <1>1, <3>3 DEF Credited
    <3> QED
        BY <1>1, <2>4, <2>6, <3>4
  <2> QED
      BY <2>5, <2>6
<1>5. CASE ClientStep /\ ~ProcessMessage /\ ~(\E c \in Commands : Start(c))
      BY <1>2, <1>5 DEF ClientStep, CallStep, StartRefused, SetTimeout, SendEvent,
          ProcessMessages, SendRequest, SendFails, WaitPoll, ReadSome, LoseMessage,
          PollDone, WaitOver
<1>6. CASE DebuggerStep
      BY <1>2, <1>6 DEF DebuggerStep, Answer, Emit, Exit, client
<1> QED
    BY <1>2, <1>3, <1>4, <1>5, <1>6 DEF Next

\* A debugger that answers a number once never changes what a caller has read of it, however
\* late the answer or whatever else is in the table (handle_response, pending_requests).
THEOREM CompletedStaysFinal == Spec => CompletedIsFinal
<1>1. Init => AnsweredOnce
      BY DEF Init, AnsweredOnce
<1>2. IInv /\ AnsweredOnce /\ [Next]_vars =>
        [\A i \in DOMAIN pending : pending[i].completed => pending'[i] = pending[i]]_vars
      BY CompletedKept
<1> QED
    BY <1>1, <1>2, Inductive, AnsweredOnceKept, PTL DEF Spec, CompletedIsFinal
===============================================================================
