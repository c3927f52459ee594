-------------------------- MODULE LldbAdapterProofs --------------------------
(***************************************************************************)
(* The adapter's two copies of the program's state agree, and a stop it     *)
(* shows when everything is read is true: for every timeout, every number   *)
(* of requests around the table and every length of the pipe.               *)
(*                                                                         *)
(* The second needs to say what is true while messages are on their way.    *)
(* The news is in order in the pipe: what the adapter shows, brought up to  *)
(* date with the events unread, is what the program does, unless a command  *)
(* that lets the program go has been granted and its answer is still behind *)
(* that news.  That the answer is the command's own, and the only one, is   *)
(* what a shared number would break.                                        *)
(***************************************************************************)
EXTENDS LldbAdapter, SequenceTheorems, TLAPS

\* What a response or an event may be: an answer to a request around the table carries a
\* number like any other.
Messages == [type : {"response"}, seq : Nat, success : BOOLEAN]
              \cup [type : {"event"}, event : EventNames]

Entries == [seq : Nat, cmd : Commands, completed : BOOLEAN, success : BOOLEAN]

Calls == [pc : Client!Places, cmd : Commands \cup {"process"}, seq : Nat, elapsed : Int,
          hup : BOOLEAN]

Typed ==
    /\ seq \in Nat
    /\ pending \in Seq(Entries)
    /\ call \in Calls
    /\ batch \in Seq(Messages) /\ stream \in Seq(Messages)
    /\ received \subseteq [seq : Nat, cmd : Commands]
    /\ rawReceived \subseteq [seq : Nat, cmd : RawCommands]
    /\ disturbed \in BOOLEAN /\ alive \in BOOLEAN

\* All that the debugger has written and the client has not handled.
Unread == batch \o stream

\* A command has been given a number and has not returned.
Active == call.pc # "idle" /\ call.cmd # "process"

\* The command under way is one after which the adapter no longer takes the program for
\* stopped: a granted one has let it go.
Releasing == Active /\ call.cmd \in Resuming \cup {"disconnect"}

IsReply(m) == m.type = "response" /\ m.seq = call.seq
IsNews(m) == m.type = "event" /\ m.event # "initialized"

\* The answer to the command under way is in its entry of the table.
Noted == \E i \in DOMAIN pending : pending[i].seq = call.seq /\ pending[i].completed

\* The entry's number is the entry's alone, and the next number is new.
Numbered ==
    /\ \A i \in DOMAIN pending : pending[i].seq < seq
    /\ \A i, j \in DOMAIN pending : pending[i].seq = pending[j].seq => i = j
    /\ Active => \E i \in DOMAIN pending : pending[i].seq = call.seq

\* Messages wait in the client only while it handles them, an operation is under way
\* whenever the client is, and only a command sends and waits.
Covered ==
    /\ call.pc # "parse" => batch = <<>>
    /\ call.pc # "idle" => op # NoOp
    /\ call.pc \in {"send", "wait"} => call.cmd # "process"

\* The command under way has one answer: with the debugger, on its way, or noted.
AnsweredOnce ==
    /\ \A r \in received : Active /\ call.pc # "send" /\ r.seq = call.seq /\ r.cmd = call.cmd
    /\ Active => \A r \in rawReceived : r.seq # call.seq
    /\ received # {} => ~Noted /\ \A i \in DOMAIN Unread : ~IsReply(Unread[i])
    /\ Active /\ call.pc = "send" => ~Noted /\ \A i \in DOMAIN Unread : ~IsReply(Unread[i])
    /\ Active /\ Noted => \A i \in DOMAIN Unread : ~IsReply(Unread[i])
    /\ Active => \A i, j \in DOMAIN Unread : IsReply(Unread[i]) /\ IsReply(Unread[j]) => i = j

\* The command under way was granted, and its answer is still to be handled after the
\* first i messages, or it is noted.
GrantedAfter(i) ==
    Releasing /\ \E j \in DOMAIN Unread : j > i /\ IsReply(Unread[j]) /\ Unread[j].success
GrantNoted ==
    Releasing /\ \E i \in DOMAIN pending :
                    pending[i].seq = call.seq /\ pending[i].completed /\ pending[i].success

\* No news of the program after the first i messages.
NoNewsAfter(i) == \A j \in DOMAIN Unread : j > i => ~IsNews(Unread[j])

\* Before the program runs for the first time there is no news of it.
NoNewsYet == prog = "none" => NoNewsAfter(0) /\ astate # "STOPPED"

\* If the last news is that it stopped, it is stopped, or a command granted since is
\* about to say that it runs.
LastStopHolds ==
    \A i \in DOMAIN Unread :
        Unread[i].type = "event" /\ Unread[i].event = "stopped" /\ NoNewsAfter(i) =>
            prog = "stopped" \/ GrantedAfter(i)

\* The same of the stop the adapter shows when there is no news at all.
ShownStop ==
    astate = "STOPPED" /\ NoNewsAfter(0) =>
        prog = "stopped" \/ GrantedAfter(0) \/ GrantNoted

Followed ==
    ~disturbed /\ alive => AnsweredOnce /\ NoNewsYet /\ LastStopHolds /\ ShownStop

IInv == Typed /\ Numbered /\ Covered /\ Followed

-----------------------------------------------------------------------------
(* Two sequences read one after the other.                                  *)

LEMMA MovedAcross ==
    ASSUME NEW S, NEW b \in Seq(S), NEW s \in Seq(S), NEW n \in 0 .. Len(s)
    PROVE  /\ b \o SubSeq(s, 1, n) \in Seq(S) /\ SubSeq(s, n + 1, Len(s)) \in Seq(S)
           /\ (b \o SubSeq(s, 1, n)) \o SubSeq(s, n + 1, Len(s)) = b \o s
<1> DEFINE front == SubSeq(s, 1, n)
           back == SubSeq(s, n + 1, Len(s))
<1>1. Len(s) \in Nat /\ \A i \in 1 .. Len(s) : s[i] \in S
      BY LenProperties, ElementOfSeq
<1>2. front \in Seq(S) /\ Len(front) = n /\ \A i \in 1 .. n : front[i] = s[i]
      BY <1>1, SubSeqProperties
<1>3. /\ back \in Seq(S) /\ Len(back) = Len(s) - n
      /\ \A i \in 1 .. (Len(s) - n) : back[i] = s[n + i]
      BY <1>1, SubSeqProperties
<1> HIDE DEF front, back
<1>4. front \o back = s
  <2>1. /\ front \o back \in Seq(S) /\ Len(front \o back) = Len(s)
        /\ \A i \in 1 .. Len(s) :
              (front \o back)[i] = IF i <= n THEN front[i] ELSE back[i - n]
        BY <1>1, <1>2, <1>3, ConcatProperties
  <2>2. \A i \in 1 .. Len(s) : (front \o back)[i] = s[i]
        BY <1>1, <1>2, <1>3, <2>1
  <2> QED
      BY <2>1, <2>2, SeqEqual
<1>5. (b \o front) \o back = b \o (front \o back)
      BY SMTT(30), <1>2, <1>3, ConcatAssociative
<1>6. b \o front \in Seq(S)
      BY <1>2, ConcatProperties
<1> QED
    BY <1>2, <1>3, <1>4, <1>5, <1>6 DEF front, back

\* Taking the first away moves the others up by one.
LEMMA TakenAway ==
    ASSUME NEW S, NEW b \in Seq(S), NEW s \in Seq(S), b # <<>>
    PROVE  /\ Tail(b) \in Seq(S) /\ Head(b) \in S
           /\ Len(b \o s) \in Nat \ {0} /\ Len(Tail(b) \o s) = Len(b \o s) - 1
           /\ DOMAIN (b \o s) = 1 .. Len(b \o s)
           /\ DOMAIN (Tail(b) \o s) = 1 .. (Len(b \o s) - 1)
           /\ (b \o s)[1] = Head(b)
           /\ \A i \in 1 .. (Len(b \o s) - 1) : (Tail(b) \o s)[i] = (b \o s)[i + 1]
<1>1. /\ Len(b) \in Nat \ {0} /\ Len(s) \in Nat
      /\ Tail(b) \in Seq(S) /\ Head(b) \in S /\ Len(Tail(b)) = Len(b) - 1
      /\ \A i \in 1 .. (Len(b) - 1) : Tail(b)[i] = b[i + 1]
      /\ Head(b) = b[1]
      BY LenProperties, EmptySeq, HeadTailProperties
<1>2. /\ b \o s \in Seq(S) /\ Len(b \o s) = Len(b) + Len(s)
      /\ \A i \in 1 .. (Len(b) + Len(s)) :
            (b \o s)[i] = IF i <= Len(b) THEN b[i] ELSE s[i - Len(b)]
      BY ConcatProperties
<1>3. /\ Tail(b) \o s \in Seq(S) /\ Len(Tail(b) \o s) = Len(Tail(b)) + Len(s)
      /\ \A i \in 1 .. (Len(Tail(b)) + Len(s)) :
            (Tail(b) \o s)[i] = IF i <= Len(Tail(b)) THEN Tail(b)[i] ELSE s[i - Len(Tail(b))]
      BY <1>1, ConcatProperties
<1>4. \A i \in 1 .. (Len(b) + Len(s) - 1) : (Tail(b) \o s)[i] = (b \o s)[i + 1]
      BY <1>1, <1>2, <1>3
<1>5. DOMAIN (b \o s) = 1 .. Len(b \o s) /\ DOMAIN (Tail(b) \o s) = 1 .. Len(Tail(b) \o s)
      BY <1>2, <1>3, LenProperties
<1> QED
    BY <1>1, <1>2, <1>3, <1>4, <1>5

\* What is added is last.
LEMMA AddedLast ==
    ASSUME NEW S, NEW b \in Seq(S), NEW s \in Seq(S), NEW m \in S
    PROVE  /\ Append(s, m) \in Seq(S)
           /\ Len(b \o s) \in Nat
           /\ DOMAIN (b \o s) = 1 .. Len(b \o s)
           /\ DOMAIN (b \o Append(s, m)) = 1 .. (Len(b \o s) + 1)
           /\ (b \o Append(s, m))[Len(b \o s) + 1] = m
           /\ \A i \in 1 .. Len(b \o s) : (b \o Append(s, m))[i] = (b \o s)[i]
<1>1. /\ Len(b) \in Nat /\ Len(s) \in Nat
      /\ Append(s, m) \in Seq(S) /\ Len(Append(s, m)) = Len(s) + 1
      /\ \A i \in 1 .. Len(s) : Append(s, m)[i] = s[i]
      /\ Append(s, m)[Len(s) + 1] = m
      BY LenProperties, AppendProperties
<1>2. /\ b \o s \in Seq(S) /\ Len(b \o s) = Len(b) + Len(s)
      /\ \A i \in 1 .. (Len(b) + Len(s)) :
            (b \o s)[i] = IF i <= Len(b) THEN b[i] ELSE s[i - Len(b)]
      BY ConcatProperties
<1>3. /\ b \o Append(s, m) \in Seq(S) /\ Len(b \o Append(s, m)) = Len(b) + (Len(s) + 1)
      /\ \A i \in 1 .. (Len(b) + (Len(s) + 1)) :
            (b \o Append(s, m))[i] = IF i <= Len(b) THEN b[i] ELSE Append(s, m)[i - Len(b)]
      BY <1>1, ConcatProperties
<1>4. DOMAIN (b \o s) = 1 .. Len(b \o s)
      /\ DOMAIN (b \o Append(s, m)) = 1 .. Len(b \o Append(s, m))
      BY <1>2, <1>3, LenProperties
<1>5. \A i \in 1 .. (Len(b) + Len(s)) : (b \o Append(s, m))[i] = (b \o s)[i]
      BY <1>1, <1>2, <1>3
<1>6. (b \o Append(s, m))[Len(b) + Len(s) + 1] = m
      BY <1>1, <1>3
<1> QED
    BY <1>1, <1>2, <1>3, <1>4, <1>5, <1>6

-----------------------------------------------------------------------------
(* The invariant at the start, and steps that leave the messages alone.     *)

LEMMA IdleTyped == Client!Idle \in Calls
<1>1. "idle" \in Client!Places /\ "process" \in Commands \cup {"process"}
      BY DEF Client!Places
<1>2. 0 \in Nat /\ 0 \in Int /\ FALSE \in BOOLEAN
      OBVIOUS
<1> QED
    BY <1>1, <1>2 DEF Client!Idle, Calls

LEMMA EntriesTyped ==
    ASSUME Typed
    PROVE  /\ Len(pending) \in Nat /\ DOMAIN pending = 1 .. Len(pending)
           /\ \A i \in DOMAIN pending :
                 /\ pending[i] \in Entries
                 /\ pending[i].seq \in Nat /\ pending[i].completed \in BOOLEAN
                 /\ pending[i].success \in BOOLEAN
<1>1. pending \in Seq(Entries)
      BY DEF Typed
<1>2. DOMAIN pending = 1 .. Len(pending) /\ \A i \in DOMAIN pending : pending[i] \in Entries
      BY <1>1, LenProperties, ElementOfSeq
<1>3. \A e \in Entries : e.seq \in Nat /\ e.completed \in BOOLEAN /\ e.success \in BOOLEAN
      BY DEF Entries
<1> QED
    BY <1>1, <1>2, <1>3, LenProperties

LEMMA InitIInv == Init => IInv
<1> SUFFICES ASSUME Init PROVE IInv
    OBVIOUS
<1>1. /\ seq = 1 /\ pending = <<>> /\ call = Client!Idle /\ batch = <<>> /\ stream = <<>>
      /\ received = {} /\ rawReceived = {} /\ alive = TRUE /\ disturbed = FALSE
      /\ astate = "NONE" /\ prog = "none"
      BY DEF Init, Client!Init
<1>2. call.pc = "idle" /\ ~Active
      BY <1>1 DEF Client!Idle, Active
<1>3. Unread \in Seq(Messages) /\ Len(Unread) = 0 /\ DOMAIN Unread = {}
  <2>1. <<>> \in Seq(Messages) /\ Len(<<>>) = 0
        BY EmptySeq
  <2>2. Unread = <<>>
        BY <1>1, <2>1, ConcatEmptySeq DEF Unread
  <2> QED
      BY <2>1, <2>2
<1>4. Typed
      BY <1>1, IdleTyped, EmptySeq DEF Typed
<1>5. Numbered /\ Covered
      BY <1>1, <1>2 DEF Numbered, Covered
<1>6. Followed
      BY <1>1, <1>2, <1>3 DEF Followed, AnsweredOnce, NoNewsYet, NoNewsAfter, LastStopHolds,
          ShownStop
<1> QED
    BY <1>4, <1>5, <1>6 DEF IInv

\* A step that shows no new stop and touches neither the news nor the command's answer.
LEMMA Carried ==
    ASSUME Followed, UNCHANGED <<Unread, pending, received, prog>>,
           astate' = astate \/ astate' # "STOPPED",
           Active' <=> Active,
           Active => /\ call'.seq = call.seq /\ call'.cmd = call.cmd
                     /\ call'.pc = "send" <=> call.pc = "send"
                     /\ rawReceived' = rawReceived,
           ~disturbed' /\ alive' => ~disturbed /\ alive
    PROVE  Followed'
<1> SUFFICES ASSUME ~disturbed', alive'
             PROVE  (AnsweredOnce /\ NoNewsYet /\ LastStopHolds /\ ShownStop)'
    BY DEF Followed
<1>1. AnsweredOnce /\ NoNewsYet /\ LastStopHolds /\ ShownStop
      BY DEF Followed
<1>2. Releasing' <=> Releasing
      BY DEF Releasing
<1>3. \A i : NoNewsAfter(i)' <=> NoNewsAfter(i)
      BY DEF NoNewsAfter, IsNews
<1>4. \A i : GrantedAfter(i)' <=> GrantedAfter(i)
      BY <1>2 DEF GrantedAfter, IsReply, Releasing
<1>5. GrantNoted' <=> GrantNoted
      BY <1>2 DEF GrantNoted, Releasing
<1>6. Active => (Noted' <=> Noted) /\ \A m : IsReply(m)' <=> IsReply(m)
      BY DEF Noted, IsReply
<1>7. AnsweredOnce'
      BY <1>1, <1>6 DEF AnsweredOnce, IsReply, Noted
<1>8. NoNewsYet' /\ LastStopHolds' /\ ShownStop'
      BY <1>1, <1>3, <1>4, <1>5 DEF NoNewsYet, LastStopHolds, ShownStop
<1> QED
    BY <1>7, <1>8

\* A read of the pipe moves messages from the one place to the other.
LEMMA ReadMoves ==
    ASSUME Typed, Client!ReadSome
    PROVE  batch' \in Seq(Messages) /\ stream' \in Seq(Messages) /\ Unread' = Unread
<1>1. PICK n \in 0 .. Len(stream) :
          batch' = batch \o SubSeq(stream, 1, n) /\ stream' = SubSeq(stream, n + 1, Len(stream))
      BY DEF Client!ReadSome
<1>2. batch \in Seq(Messages) /\ stream \in Seq(Messages)
      BY DEF Typed
<1>3. /\ batch' \in Seq(Messages) /\ stream' \in Seq(Messages)
      /\ batch' \o stream' = batch \o stream
  <2> DEFINE M == Messages
  <2>1. n \in 0 .. Len(stream) /\ batch \in Seq(M) /\ stream \in Seq(M)
        BY <1>1, <1>2
  <2> HIDE DEF M
  <2>2. /\ batch \o SubSeq(stream, 1, n) \in Seq(M)
        /\ SubSeq(stream, n + 1, Len(stream)) \in Seq(M)
        /\ (batch \o SubSeq(stream, 1, n)) \o SubSeq(stream, n + 1, Len(stream))
             = batch \o stream
        BY ONLY <2>1, MovedAcross, ZenonT(40)
  <2> QED
      BY <1>1, <2>2 DEF M
<1> QED
    BY <1>3 DEF Unread

LEMMA StutterKeeps ==
    ASSUME IInv, UNCHANGED vars
    PROVE  IInv'
<1>1. UNCHANGED Unread
      BY DEF vars, Unread
<1>2. Followed'
      BY <1>1, Carried DEF IInv, vars, Active
<1>3. Typed' /\ Numbered' /\ Covered'
      BY DEF IInv, vars, Typed, Numbered, Covered, Active
<1> QED
    BY <1>2, <1>3 DEF IInv

-----------------------------------------------------------------------------
(* The caller's steps.                                                      *)

\* A command that begins takes a number that no answer under way carries.
LEMMA BeginKeeps ==
    ASSUME IInv, NEW c \in Commands, Begin(c)
    PROVE  IInv'
<1> DEFINE e == Client!Entry(seq, c)
           n == Len(pending)
<1>1. /\ Typed /\ Numbered /\ Covered /\ Followed
      BY DEF IInv
<1>2. /\ op = NoOp /\ call.pc = "idle" /\ op' = Op(c, 0)
      /\ pending' = Append(pending, e)
      /\ call' = [Client!Idle EXCEPT !.pc = "send", !.cmd = c, !.seq = seq]
      /\ seq' = seq + 1
      /\ disturbed' = (disturbed \/ Shared)
      /\ UNCHANGED <<batch, alive, received, stream, rawReceived, astate, prog>>
      BY DEF Begin, Client!Start, Client!debugger
<1>3. c # "process" /\ c # "none" /\ seq \in Nat
      BY <1>1 DEF Commands, Resuming, Typed
<1>4. /\ call'.pc = "send" /\ call'.cmd = c /\ call'.seq = seq
      /\ call' \in Calls
  <2>1. "send" \in Client!Places
        BY DEF Client!Places
  <2> QED
      BY <1>2, <1>3, <2>1, IdleTyped DEF Client!Idle, Calls
<1>5. ~Active /\ Active'
      BY <1>2, <1>3, <1>4 DEF Active
<1>6. e \in Entries /\ e.seq = seq /\ e.completed = FALSE
      BY <1>3 DEF Client!Entry, Entries
<1>7. /\ pending' \in Seq(Entries) /\ n \in Nat
      /\ DOMAIN pending = 1 .. n /\ DOMAIN pending' = 1 .. (n + 1)
      /\ \A i \in 1 .. n : pending'[i] = pending[i]
      /\ pending'[n + 1] = e
      BY <1>1, <1>2, <1>6, LenProperties, AppendProperties DEF Typed
<1>8. Typed'
      BY <1>1, <1>2, <1>3, <1>4, <1>7 DEF Typed
<1>9. Numbered'
  <2>1. \A i \in 1 .. n : pending[i].seq \in Nat /\ pending[i].seq < seq
        BY <1>1, <1>7, EntriesTyped DEF Numbered
  <2>2. \A i \in DOMAIN pending' : pending'[i].seq < seq'
        BY <1>2, <1>3, <1>6, <1>7, <2>1
  <2>3. \A i, j \in DOMAIN pending' : pending'[i].seq = pending'[j].seq => i = j
        BY <1>1, <1>3, <1>6, <1>7, <2>1 DEF Numbered
  <2>4. \E i \in DOMAIN pending' : pending'[i].seq = call'.seq
        BY <1>4, <1>6, <1>7
  <2> QED
      BY <2>2, <2>3, <2>4 DEF Numbered
<1>10. Covered'
       BY <1>1, <1>2, <1>3, <1>4 DEF Covered, Op, NoOp
<1>11. Followed'
  <2> SUFFICES ASSUME ~disturbed', alive'
               PROVE  (AnsweredOnce /\ NoNewsYet /\ LastStopHolds /\ ShownStop)'
      BY DEF Followed
  <2>1. ~Shared /\ AnsweredOnce /\ NoNewsYet /\ LastStopHolds /\ ShownStop
        BY <1>1, <1>2 DEF Followed
  <2>2. batch = <<>> /\ Unread = stream /\ Unread' = Unread
        BY <1>1, <1>2, ConcatEmptySeq DEF Covered, Unread, Typed
  <2>3. \A i \in DOMAIN Unread' : ~(Unread'[i].type = "response" /\ Unread'[i].seq = call'.seq)
        BY <1>4, <2>1, <2>2 DEF Shared
  <2>4. received' = {} /\ \A r \in rawReceived' : r.seq # call'.seq
        BY <1>2, <1>4, <1>5, <2>1 DEF AnsweredOnce, Shared
  <2>5. \A i \in DOMAIN pending' : pending'[i].seq = call'.seq => ~pending'[i].completed
    <3>1. \A i \in 1 .. n : pending'[i].seq # seq
          BY <1>1, <1>3, <1>7, EntriesTyped DEF Numbered
    <3> QED
        BY <1>4, <1>6, <1>7, <3>1
  <2>6. AnsweredOnce'
        BY <2>3, <2>4, <2>5 DEF AnsweredOnce, IsReply, Noted
  <2>7. \A i : NoNewsAfter(i)' <=> NoNewsAfter(i)
        BY <2>2 DEF NoNewsAfter, IsNews
  <2>8. ~GrantNoted /\ \A i : ~GrantedAfter(i)
        BY <1>5 DEF GrantedAfter, GrantNoted, Releasing
  <2> QED
      BY <1>2, <2>1, <2>2, <2>6, <2>7, <2>8 DEF NoNewsYet, LastStopHolds, ShownStop
<1> QED
    BY <1>8, <1>9, <1>10, <1>11 DEF IInv

LEMMA BeginRefusedKeeps ==
    ASSUME IInv, NEW c \in Commands, BeginRefused(c)
    PROVE  IInv'
<1>1. /\ call.pc = "idle" /\ seq' = seq + 1
      /\ astate' = astate \/ astate' # "STOPPED"
      /\ UNCHANGED <<pending, call, batch, alive, received, stream, rawReceived, op, prog,
                     disturbed>>
      BY DEF BeginRefused, Client!StartRefused, Client!debugger
<1>2. UNCHANGED <<Unread, Active>>
      BY <1>1 DEF Unread, Active
<1>3. Followed'
      BY <1>1, <1>2, Carried DEF IInv
<1>4. Typed' /\ Covered'
      BY <1>1 DEF IInv, Typed, Covered
<1>5. Numbered'
  <2>1. seq \in Nat /\ \A i \in DOMAIN pending : pending[i].seq \in Nat /\ pending[i].seq < seq
        BY EntriesTyped DEF IInv, Typed, Numbered
  <2> QED
      BY <1>1, <1>2, <2>1 DEF IInv, Numbered
<1> QED
    BY <1>3, <1>4, <1>5 DEF IInv

\* A request around the table is sent while no command is under way.
LEMMA RawKeeps ==
    ASSUME IInv, NEW c \in RawCommands, Raw(c) \/ RawUnsent(c),
           astate' = astate \/ astate' # "STOPPED"
    PROVE  IInv'
<1>1. /\ call.pc = "idle" /\ UNCHANGED <<clientVars, op, prog, disturbed>>
      /\ rawReceived' \subseteq rawReceived \cup {[seq |-> seq, cmd |-> c]}
      BY DEF Raw, RawUnsent
<1>2. ~Active /\ UNCHANGED <<Unread, Active>>
      BY <1>1 DEF Unread, Active, clientVars
<1>3. Followed'
      BY <1>1, <1>2, Carried DEF IInv, clientVars
<1>4. Typed'
      BY <1>1 DEF IInv, Typed, clientVars
<1>5. Numbered' /\ Covered'
      BY <1>1, <1>2 DEF IInv, Numbered, Covered, clientVars
<1> QED
    BY <1>3, <1>4, <1>5 DEF IInv

LEMMA WaitForStopKeeps ==
    ASSUME IInv, NEW t \in WaitPolls, WaitForStop(t)
    PROVE  IInv'
<1>1. /\ call.pc = "idle" /\ UNCHANGED <<clientVars, astate, rawReceived, prog, disturbed>>
      BY DEF WaitForStop
<1>2. UNCHANGED <<Unread, Active>>
      BY <1>1 DEF Unread, Active, clientVars
<1>3. Followed'
      BY <1>1, <1>2, Carried DEF IInv, clientVars
<1>4. Typed' /\ Numbered' /\ Covered'
      BY <1>1, <1>2 DEF IInv, Typed, Numbered, Covered, clientVars
<1> QED
    BY <1>3, <1>4 DEF IInv

\* Reading for no command: wait_for_stop's turns and a front end's polls.
LEMMA PumpKeeps ==
    ASSUME IInv, ProcessEvents \/ WaitTurn
    PROVE  IInv'
<1>1. /\ Client!ProcessMessages /\ op' # NoOp
      /\ UNCHANGED <<astate, rawReceived, prog, disturbed>>
      BY DEF ProcessEvents, WaitTurn, adapterVars, Op, NoOp
<1>2. /\ call.pc = "idle" /\ Client!ReadSome
      /\ call' = [Client!Idle EXCEPT !.pc = "parse", !.hup = ~alive]
      /\ UNCHANGED <<seq, pending, alive, received>>
      BY <1>1 DEF Client!ProcessMessages, Client!ReadSome
<1>3. /\ call'.pc = "parse" /\ call'.cmd = "process"
      /\ call' \in Calls
  <2>1. "parse" \in Client!Places /\ (~alive) \in BOOLEAN
        BY DEF Client!Places
  <2> QED
      BY <1>2, <2>1, IdleTyped DEF Client!Idle, Calls
<1>4. batch' \in Seq(Messages) /\ stream' \in Seq(Messages) /\ Unread' = Unread
      BY <1>2, ReadMoves DEF IInv
<1>5. ~Active /\ ~Active'
      BY <1>2, <1>3 DEF Active
<1>6. Followed'
      BY <1>1, <1>2, <1>4, <1>5, Carried DEF IInv
<1>7. Typed'
      BY <1>1, <1>2, <1>3, <1>4 DEF IInv, Typed
<1>8. Numbered' /\ Covered'
      BY <1>1, <1>2, <1>3, <1>5 DEF IInv, Numbered, Covered
<1> QED
    BY <1>6, <1>7, <1>8 DEF IInv

-----------------------------------------------------------------------------
(* Messages handled.                                                        *)

\* What is left unread once the first message is handled.
MovedUp(m) ==
    /\ Len(Unread) \in Nat \ {0}
    /\ DOMAIN Unread = 1 .. Len(Unread) /\ DOMAIN Unread' = 1 .. (Len(Unread) - 1)
    /\ Unread[1] = m
    /\ \A i \in 1 .. (Len(Unread) - 1) : Unread'[i] = Unread[i + 1]

LEMMA HandledMovesUp ==
    ASSUME IInv, batch # <<>>, batch' = Tail(batch), UNCHANGED <<stream, call, prog>>
    PROVE  /\ batch' \in Seq(Messages) /\ Head(batch) \in Messages /\ MovedUp(Head(batch))
           /\ \A i \in Nat : NoNewsAfter(i)' => NoNewsAfter(i + 1)
           /\ \A i \in Nat : GrantedAfter(i + 1) => GrantedAfter(i)'
           /\ LastStopHolds => LastStopHolds'
<1>1. batch \in Seq(Messages) /\ stream \in Seq(Messages)
      BY DEF IInv, Typed
<1>2. batch' \in Seq(Messages) /\ Head(batch) \in Messages /\ MovedUp(Head(batch))
      BY SMTT(30), <1>1, TakenAway DEF MovedUp, Unread
<1>3. ASSUME NEW i \in Nat, NoNewsAfter(i)' PROVE NoNewsAfter(i + 1)
  <2>1. \A j \in DOMAIN Unread' : j > i => ~IsNews(Unread'[j])
        BY <1>3 DEF NoNewsAfter, IsNews
  <2> SUFFICES ASSUME NEW j \in DOMAIN Unread, j > i + 1 PROVE ~IsNews(Unread[j])
      BY DEF NoNewsAfter
  <2>2. j \in Int /\ j - 1 \in 1 .. (Len(Unread) - 1) /\ j - 1 > i
        BY <1>2 DEF MovedUp
  <2>3. Unread'[j - 1] = Unread[(j - 1) + 1] /\ (j - 1) + 1 = j
        BY <1>2, <2>2 DEF MovedUp
  <2> QED
      BY <1>2, <2>1, <2>2, <2>3 DEF MovedUp
<1>4. ASSUME NEW i \in Nat, GrantedAfter(i + 1) PROVE GrantedAfter(i)'
  <2>1. PICK j \in DOMAIN Unread : j > i + 1 /\ IsReply(Unread[j]) /\ Unread[j].success
        BY <1>4 DEF GrantedAfter
  <2>2. j - 1 \in 1 .. (Len(Unread) - 1) /\ j - 1 > i /\ (j - 1) + 1 = j
        BY <1>2, <2>1 DEF MovedUp
  <2>3. j - 1 \in DOMAIN Unread' /\ Unread'[j - 1] = Unread[j]
        BY <1>2, <2>2 DEF MovedUp
  <2> QED
      BY <1>4, <2>1, <2>2, <2>3 DEF GrantedAfter, IsReply, Releasing, Active
<1>5. ASSUME LastStopHolds, NEW i \in DOMAIN Unread', Unread'[i].type = "event",
             Unread'[i].event = "stopped", NoNewsAfter(i)'
      PROVE  prog = "stopped" \/ GrantedAfter(i)'
  <2>1. i \in Nat /\ i + 1 \in DOMAIN Unread /\ Unread'[i] = Unread[i + 1]
        BY <1>2 DEF MovedUp
  <2> QED
      BY <1>3, <1>4, <1>5, <2>1 DEF LastStopHolds
<1> QED
    BY <1>2, <1>3, <1>4, <1>5 DEF LastStopHolds

\* An event brings what the adapter shows up to date.
LEMMA EventKeeps ==
    ASSUME IInv, HandleMessage, Head(batch).type = "event"
    PROVE  IInv'
<1> DEFINE m == Head(batch)
<1>1. /\ call.pc = "parse" /\ batch # <<>> /\ batch' = Tail(batch) /\ OnEvent(m.event)
      /\ UNCHANGED <<seq, pending, call, stream, received, alive, op, rawReceived, prog,
                     disturbed>>
      BY DEF HandleMessage, Client!ProcessMessage, Client!HandleEvent, Client!debugger
<1>2. /\ batch' \in Seq(Messages) /\ MovedUp(m)
      /\ \A i \in Nat : NoNewsAfter(i)' => NoNewsAfter(i + 1)
      /\ \A i \in Nat : GrantedAfter(i + 1) => GrantedAfter(i)'
      /\ LastStopHolds => LastStopHolds'
      BY <1>1, HandledMovesUp
<1>3. UNCHANGED <<Active, Releasing, Noted, GrantNoted>>
      BY <1>1 DEF Active, Releasing, Noted, GrantNoted
<1>4. Typed' /\ Numbered' /\ Covered'
      BY <1>1, <1>2, <1>3 DEF IInv, Typed, Numbered, Covered
<1>5. Followed'
  <2> SUFFICES ASSUME ~disturbed', alive'
               PROVE  (AnsweredOnce /\ NoNewsYet /\ LastStopHolds /\ ShownStop)'
      BY DEF Followed
  <2>1. AnsweredOnce /\ NoNewsYet /\ LastStopHolds /\ ShownStop
        BY <1>1 DEF IInv, Followed
  <2>2. \A x : IsReply(x)' <=> IsReply(x)
        BY <1>1 DEF IsReply
  <2>3. \A i \in DOMAIN Unread' : i \in Nat /\ i + 1 \in DOMAIN Unread /\ Unread'[i] = Unread[i + 1]
        BY <1>2 DEF MovedUp
  <2>4. AnsweredOnce'
    <3>1. (\A i \in DOMAIN Unread : ~IsReply(Unread[i]))
             => \A i \in DOMAIN Unread' : ~IsReply(Unread'[i])
          BY <2>3
    <3>2. Active => \A i, j \in DOMAIN Unread' : IsReply(Unread'[i]) /\ IsReply(Unread'[j]) => i = j
      <4> SUFFICES ASSUME Active, NEW i \in DOMAIN Unread', NEW j \in DOMAIN Unread',
                          IsReply(Unread'[i]), IsReply(Unread'[j])
                   PROVE  i = j
          OBVIOUS
      <4>1. i + 1 = j + 1
            BY <2>1, <2>3 DEF AnsweredOnce
      <4> QED
          BY <2>3, <4>1
    <3> QED
        BY <1>1, <1>3, <2>1, <2>2, <3>1, <3>2 DEF AnsweredOnce
  <2>6. m.event # "initialized" => IsNews(m)
        BY DEF IsNews
  <2>7. 1 \in DOMAIN Unread /\ Unread[1] = m /\ 1 > 0 /\ 0 \in Nat /\ 0 + 1 = 1
        BY <1>2 DEF MovedUp
  <2>8. NoNewsYet'
    <3> SUFFICES ASSUME prog = "none" PROVE NoNewsAfter(0)' /\ astate' # "STOPPED"
        BY <1>1 DEF NoNewsYet
    <3>1. NoNewsAfter(0) /\ astate # "STOPPED"
          BY <2>1 DEF NoNewsYet
    <3>2. m.event = "initialized"
          BY <2>6, <2>7, <3>1 DEF NoNewsAfter
    <3>3. \A i \in DOMAIN Unread' : ~IsNews(Unread'[i])
          BY <2>3, <3>1 DEF NoNewsAfter
    <3> QED
        BY <1>1, <3>1, <3>2, <3>3 DEF OnEvent, Shown, NoNewsAfter, IsNews
  <2>9. LastStopHolds'
        BY <1>2, <2>1
  <2>10. ShownStop'
    <3> SUFFICES ASSUME astate' = "STOPPED", NoNewsAfter(0)'
                 PROVE  prog' = "stopped" \/ GrantedAfter(0)' \/ GrantNoted'
        BY DEF ShownStop
    <3>1. NoNewsAfter(1)
          BY <1>2, <2>7
    <3>2. CASE m.event = "stopped"
      <4>1. prog = "stopped" \/ GrantedAfter(1)
            BY <2>1, <2>7, <3>1, <3>2 DEF LastStopHolds
      <4> QED
          BY <1>1, <1>2, <2>7, <4>1
    <3>3. CASE m.event # "stopped"
      <4>1. astate = "STOPPED" /\ m.event \notin {"continued", "exited", "terminated"}
            BY <1>1, <3>3 DEF OnEvent, Shown
      <4>2. CASE m.event = "initialized"
        <5>1. NoNewsAfter(0)
          <6> SUFFICES ASSUME NEW j \in DOMAIN Unread, j > 0 PROVE ~IsNews(Unread[j])
              BY DEF NoNewsAfter
          <6>1. CASE j = 1
                BY <2>7, <4>2, <6>1 DEF IsNews
          <6>2. CASE j # 1
            <7>1. j > 1
                  BY <1>2, <6>2 DEF MovedUp
            <7> QED
                BY <3>1, <7>1 DEF NoNewsAfter
          <6> QED
              BY <6>1, <6>2
        <5>2. prog = "stopped" \/ GrantedAfter(0) \/ GrantNoted
              BY <2>1, <4>1, <5>1 DEF ShownStop
        <5>3. GrantedAfter(0) => GrantedAfter(1)
          <6> SUFFICES ASSUME Releasing, NEW j \in DOMAIN Unread, j > 0, IsReply(Unread[j]),
                              Unread[j].success
                       PROVE  GrantedAfter(1)
              BY DEF GrantedAfter
          <6>1. j # 1
                BY <2>7 DEF IsReply
          <6>2. j > 1
                BY <1>2, <6>1 DEF MovedUp
          <6> QED
              BY <6>2 DEF GrantedAfter
        <5> QED
            BY <1>1, <1>2, <1>3, <2>7, <5>2, <5>3
      <4>3. m.event \in EventNames
        <5>1. m \in Messages
              BY <1>1, HandledMovesUp
        <5> QED
            BY <5>1 DEF Messages
      <4> QED
          BY <3>3, <4>1, <4>2, <4>3 DEF EventNames
    <3> QED
        BY <3>2, <3>3
  <2> QED
      BY <2>4, <2>8, <2>9, <2>10
<1> QED
    BY <1>4, <1>5 DEF IInv

\* An answer fills the entry of the command under way, or concerns nobody.
LEMMA ResponseKeeps ==
    ASSUME IInv, HandleMessage, Head(batch).type = "response"
    PROVE  IInv'
<1> DEFINE m == Head(batch)
<1>1. /\ call.pc = "parse" /\ batch # <<>> /\ batch' = Tail(batch)
      /\ Client!HandleResponse(m)
      /\ UNCHANGED <<seq, call, stream, received, alive, astate, op, rawReceived, prog,
                     disturbed>>
      BY DEF HandleMessage, Client!ProcessMessage, Client!debugger
<1>2. /\ batch' \in Seq(Messages) /\ m \in Messages /\ MovedUp(m)
      /\ \A i \in Nat : NoNewsAfter(i)' => NoNewsAfter(i + 1)
      /\ \A i \in Nat : GrantedAfter(i + 1) => GrantedAfter(i)'
      /\ LastStopHolds => LastStopHolds'
      BY <1>1, HandledMovesUp
<1>3. m.seq \in Nat /\ m.success \in BOOLEAN
      BY <1>2 DEF Messages
<1>4. \/ Client!NotFound(m.seq) /\ UNCHANGED pending
      \/ \E i \in DOMAIN pending :
            /\ pending[i].seq = m.seq
            /\ pending' = [pending EXCEPT ![i].completed = TRUE, ![i].success = m.success]
      BY <1>1 DEF Client!HandleResponse, Client!FoundAt
<1>5. /\ pending' \in Seq(Entries) /\ DOMAIN pending' = DOMAIN pending
      /\ \A j \in DOMAIN pending : pending'[j].seq = pending[j].seq
      /\ \A j \in DOMAIN pending : pending[j].seq # m.seq => pending'[j] = pending[j]
      /\ \A j \in DOMAIN pending : pending[j].seq = m.seq =>
            (\E k \in DOMAIN pending : pending[k].seq = m.seq /\ pending'[k].completed
                                         /\ pending'[k].success = m.success)
  <2>1. CASE Client!NotFound(m.seq) /\ UNCHANGED pending
        BY <2>1 DEF Client!NotFound, IInv, Typed
  <2>2. ASSUME NEW i \in DOMAIN pending, pending[i].seq = m.seq,
               pending' = [pending EXCEPT ![i].completed = TRUE, ![i].success = m.success]
        PROVE  <1>5!:
    <3> DEFINE e == [[pending[i] EXCEPT !.completed = TRUE] EXCEPT !.success = m.success]
    <3>1. pending \in Seq(Entries) /\ pending[i] \in Entries /\ i \in 1 .. Len(pending)
          BY EntriesTyped DEF IInv, Typed
    <3>2. e \in Entries /\ e.seq = m.seq /\ e.completed /\ e.success = m.success
          BY <1>3, <2>2, <3>1 DEF Entries
    <3>4. pending' = [pending EXCEPT ![i] = e]
          BY <2>2
    <3> HIDE DEF e
    <3>5. /\ pending' \in Seq(Entries) /\ Len(pending') = Len(pending)
          /\ \A j \in 1 .. Len(pending) : pending'[j] = IF j = i THEN e ELSE pending[j]
          BY <3>1, <3>2, <3>4, ExceptSeq
    <3>6. DOMAIN pending' = DOMAIN pending /\ DOMAIN pending = 1 .. Len(pending)
          BY <3>1, <3>5, LenProperties
    <3> QED
        BY <2>2, <3>2, <3>5, <3>6
  <2> QED
      BY <1>4, <2>1, <2>2
<1>6. UNCHANGED <<Active, Releasing>> /\ \A x : IsReply(x)' <=> IsReply(x)
      BY <1>1 DEF Active, Releasing, IsReply
<1>7. Typed' /\ Covered'
      BY <1>1, <1>2, <1>5 DEF IInv, Typed, Covered
<1>8. Numbered'
      BY <1>1, <1>5, <1>6 DEF IInv, Numbered
<1>9. Followed'
  <2> SUFFICES ASSUME ~disturbed', alive'
               PROVE  (AnsweredOnce /\ NoNewsYet /\ LastStopHolds /\ ShownStop)'
      BY DEF Followed
  <2>1. AnsweredOnce /\ NoNewsYet /\ LastStopHolds /\ ShownStop
        BY <1>1 DEF IInv, Followed
  <2>2. \A i \in DOMAIN Unread' : i \in Nat /\ i + 1 \in DOMAIN Unread /\ Unread'[i] = Unread[i + 1]
        BY <1>2 DEF MovedUp
  <2>3. 1 \in DOMAIN Unread /\ Unread[1] = m /\ 0 \in Nat /\ 0 + 1 = 1
        BY <1>2 DEF MovedUp
  <2>4. ~IsNews(m)
        BY DEF IsNews
  <2>5. NoNewsAfter(0)' => NoNewsAfter(0)
    <3> SUFFICES ASSUME NoNewsAfter(0)', NEW j \in DOMAIN Unread, j > 0 PROVE ~IsNews(Unread[j])
        BY DEF NoNewsAfter
    <3>1. NoNewsAfter(1)
          BY <1>2, <2>3
    <3>2. j # 1 => j > 1
          BY <1>2 DEF MovedUp
    <3> QED
        BY <2>3, <2>4, <3>1, <3>2 DEF NoNewsAfter
  <2>6. NoNewsYet'
    <3>1. (\A j \in DOMAIN Unread : j > 0 => ~IsNews(Unread[j]))
             => \A i \in DOMAIN Unread' : ~IsNews(Unread'[i])
          BY <2>2
    <3>2. NoNewsAfter(0) => NoNewsAfter(0)'
          BY <3>1 DEF NoNewsAfter, IsNews
    <3> QED
        BY <1>1, <2>1, <3>2 DEF NoNewsYet
  <2>7. CASE Active /\ IsReply(m)
    <3>1. m.seq = call.seq
          BY <2>7 DEF IsReply
    <3>2. PICK k \in DOMAIN pending : pending[k].seq = call.seq /\ pending'[k].completed
                                        /\ pending'[k].success = m.success
          BY <1>5, <2>7, <3>1 DEF IInv, Numbered
    <3>3. Noted' /\ (Releasing /\ m.success => GrantNoted')
          BY <1>1, <1>5, <1>6, <3>2 DEF Noted, GrantNoted
    <3>4. \A i \in DOMAIN Unread' : ~IsReply(Unread'[i])
      <4> SUFFICES ASSUME NEW i \in DOMAIN Unread', IsReply(Unread'[i]) PROVE FALSE
          OBVIOUS
      <4>1. i + 1 = 1
            BY <2>1, <2>2, <2>3, <2>7 DEF AnsweredOnce
      <4> QED
          BY <1>2, <2>2, <4>1 DEF MovedUp
    <3>5. received = {} /\ call.pc # "send"
          BY <1>1, <2>1, <2>3, <2>7 DEF AnsweredOnce
    <3>6. AnsweredOnce'
          BY <1>1, <1>6, <2>1, <3>4, <3>5 DEF AnsweredOnce
    <3>7. GrantedAfter(0) => GrantedAfter(0)' \/ GrantNoted'
      <4> SUFFICES ASSUME Releasing, NEW j \in DOMAIN Unread, j > 0, IsReply(Unread[j]),
                          Unread[j].success
                   PROVE  GrantNoted'
          BY DEF GrantedAfter
      <4>1. j = 1
            BY <2>1, <2>3, <2>7 DEF AnsweredOnce
      <4> QED
          BY <2>3, <3>3, <4>1
    <3>8. ~GrantNoted
          BY <2>1, <2>3, <2>7 DEF GrantNoted, Noted, AnsweredOnce
    <3>9. ShownStop'
          BY <1>1, <2>1, <2>5, <3>7, <3>8 DEF ShownStop
    <3> QED
        BY <1>2, <2>1, <2>6, <3>6, <3>9
  <2>8. CASE ~(Active /\ IsReply(m))
    <3>1. Active => m.seq # call.seq
          BY <2>8 DEF IsReply
    <3>2. Active => (Noted' <=> Noted)
          BY <1>1, <1>5, <3>1 DEF Noted
    <3>3. GrantNoted => GrantNoted'
          BY <1>1, <1>5, <1>6, <3>1 DEF GrantNoted, Releasing
    <3>4. (\A i \in DOMAIN Unread : ~IsReply(Unread[i]))
             => \A i \in DOMAIN Unread' : ~IsReply(Unread'[i])
          BY <2>2
    <3>5. Active => \A i, j \in DOMAIN Unread' : IsReply(Unread'[i]) /\ IsReply(Unread'[j]) => i = j
      <4> SUFFICES ASSUME Active, NEW i \in DOMAIN Unread', NEW j \in DOMAIN Unread',
                          IsReply(Unread'[i]), IsReply(Unread'[j])
                   PROVE  i = j
          OBVIOUS
      <4>1. i + 1 = j + 1
            BY <2>1, <2>2 DEF AnsweredOnce
      <4> QED
          BY <2>2, <4>1
    <3>6. AnsweredOnce'
          BY <1>1, <1>6, <2>1, <3>2, <3>4, <3>5 DEF AnsweredOnce
    <3>7. GrantedAfter(0) => GrantedAfter(1)
      <4> SUFFICES ASSUME Releasing, NEW j \in DOMAIN Unread, j > 0, IsReply(Unread[j]),
                          Unread[j].success
                   PROVE  GrantedAfter(1)
          BY DEF GrantedAfter
      <4>1. j # 1
            BY <2>3, <2>8 DEF Releasing
      <4>2. j > 1
            BY <1>2, <4>1 DEF MovedUp
      <4> QED
          BY <4>2 DEF GrantedAfter
    <3>8. ShownStop'
          BY <1>1, <1>2, <2>1, <2>3, <2>5, <3>3, <3>7 DEF ShownStop
    <3> QED
        BY <1>2, <2>1, <2>6, <3>6, <3>8
  <2> QED
      BY <2>7, <2>8
<1> QED
    BY <1>7, <1>8, <1>9 DEF IInv

LEMMA DropKeeps ==
    ASSUME IInv, DropMessage
    PROVE  IInv'
<1>1. /\ call.pc = "parse" /\ batch # <<>> /\ batch' = Tail(batch) /\ disturbed' = TRUE
      /\ UNCHANGED <<seq, pending, call, stream, received, alive, op, rawReceived, prog>>
      BY DEF DropMessage, Client!LoseMessage, Client!debugger, adapterVars
<1>2. batch' \in Seq(Messages)
      BY <1>1, HandledMovesUp
<1>3. Typed' /\ Numbered' /\ Covered' /\ Followed'
      BY <1>1, <1>2 DEF IInv, Typed, Numbered, Covered, Followed, Active
<1> QED
    BY <1>3 DEF IInv

-----------------------------------------------------------------------------
(* A command goes on, and returns.                                          *)

\* The request reaches the debugger, who has nothing else of this client.
LEMMA SendRequestKeeps ==
    ASSUME IInv, CommandStep, Client!SendRequest
    PROVE  IInv'
<1> DEFINE q == [seq |-> call.seq, cmd |-> call.cmd]
<1>1. /\ call.pc = "send" /\ alive /\ received' \subseteq received \cup {q}
      /\ call' = [call EXCEPT !.pc = "wait"]
      /\ UNCHANGED <<seq, pending, batch, alive, stream, rawReceived, prog>>
      BY DEF CommandStep, Client!SendRequest, Client!Deliver
<1>2. /\ call \in Calls /\ call' \in Calls /\ call'.pc = "wait"
      /\ call'.cmd = call.cmd /\ call'.seq = call.seq /\ call.seq \in Nat
      BY <1>1 DEF IInv, Typed, Calls, Client!Places
<1>3. UNCHANGED <<astate, op, disturbed>>
      BY <1>2 DEF CommandStep, adapterVars
<1>4. UNCHANGED <<Unread, Active, Releasing, Noted, GrantNoted>>
      BY <1>1, <1>2 DEF Unread, Active, Releasing, Noted, GrantNoted
<1>5. Active /\ received' \subseteq [seq : Nat, cmd : Commands]
      BY <1>1, <1>2 DEF IInv, Typed, Covered, Calls, Active
<1>6. Typed' /\ Numbered' /\ Covered'
      BY <1>1, <1>2, <1>3, <1>4, <1>5 DEF IInv, Typed, Numbered, Covered
<1>7. Followed'
  <2> SUFFICES ASSUME ~disturbed', alive'
               PROVE  (AnsweredOnce /\ NoNewsYet /\ LastStopHolds /\ ShownStop)'
      BY DEF Followed
  <2>1. AnsweredOnce /\ NoNewsYet /\ LastStopHolds /\ ShownStop
        BY <1>1, <1>3 DEF IInv, Followed
  <2>2. \A x : (IsReply(x)' <=> IsReply(x)) /\ (IsNews(x)' <=> IsNews(x))
        BY <1>2 DEF IsReply, IsNews
  <2>3. ~Noted /\ \A i \in DOMAIN Unread : ~IsReply(Unread[i])
        BY <1>1, <1>5, <2>1 DEF AnsweredOnce
  <2>4. \A r \in received' : r.seq = call.seq /\ r.cmd = call.cmd
        BY <1>1, <2>1 DEF AnsweredOnce
  <2>5. \A r \in rawReceived' : r.seq # call.seq
        BY <1>1, <1>5, <2>1 DEF AnsweredOnce
  <2>6. AnsweredOnce'
        BY <1>2, <1>4, <1>5, <2>2, <2>3, <2>4, <2>5 DEF AnsweredOnce
  <2>7. \A i : (NoNewsAfter(i)' <=> NoNewsAfter(i)) /\ (GrantedAfter(i)' <=> GrantedAfter(i))
        BY <1>4, <2>2 DEF NoNewsAfter, GrantedAfter
  <2>8. NoNewsYet' /\ LastStopHolds' /\ ShownStop'
        BY <1>1, <1>3, <1>4, <2>1, <2>7 DEF NoNewsYet, LastStopHolds, ShownStop
  <2> QED
      BY <2>6, <2>8
<1> QED
    BY <1>6, <1>7 DEF IInv

LEMMA ReturnSays ==
    ASSUME NEW e, Client!Return(e)
    PROVE  ret'.err = e /\ call' = Client!Idle
BY DEF Client!Return, Client!Result

\* A poll that is over ends the command, leads to its next, or ends a pump.
LEMMA PollDoneGoes ==
    ASSUME Client!PollDone
    PROVE  /\ call.pc = "parse" /\ batch = <<>>
           /\ UNCHANGED <<seq, pending, batch, alive, received, stream>>
           /\ \/ call.cmd # "process" /\ call' = Client!Idle /\ ret'.err = "CONNECTION_CLOSED"
              \/ call.cmd # "process" /\ call' = [call EXCEPT !.pc = "wait", !.elapsed = @ + 1]
              \/ call.cmd = "process" /\ call' = Client!Idle
<1>1. \/ call.cmd # "process" /\ Client!Return("CONNECTION_CLOSED")
      \/ call.cmd # "process" /\ call' = [call EXCEPT !.pc = "wait", !.elapsed = @ + 1]
      \/ call.cmd = "process" /\ call' = Client!Idle
      BY DEF Client!PollDone
<1>2. /\ call.pc = "parse" /\ batch = <<>>
      /\ UNCHANGED <<seq, pending, batch, alive, received, stream>>
      BY DEF Client!PollDone, Client!debugger
<1> QED
    BY <1>1, <1>2, ReturnSays

\* A poll reads, and a poll that is over and ends no command leads to the next.
LEMMA PollKeeps ==
    ASSUME IInv, CommandStep, Client!WaitPoll \/ Client!PollDone, call'.pc # "idle"
    PROVE  IInv'
<1>1. call \in Calls
      BY DEF IInv, Typed
<1>2. /\ call' \in Calls /\ call'.cmd = call.cmd /\ call'.seq = call.seq
      /\ Unread' = Unread /\ batch' \in Seq(Messages) /\ stream' \in Seq(Messages)
      /\ \/ call.pc = "wait" /\ call'.pc = "parse"
         \/ call.pc = "parse" /\ call'.pc = "wait" /\ batch' = <<>> /\ call.cmd # "process"
      /\ UNCHANGED <<seq, pending, alive, received>>
  <2>1. CASE Client!WaitPoll
    <3>1. /\ call.pc = "wait" /\ Client!ReadSome
          /\ call' = [call EXCEPT !.pc = "parse", !.hup = ~alive]
          /\ UNCHANGED <<seq, pending, alive, received>>
          BY <2>1 DEF Client!WaitPoll, Client!ReadSome
    <3>2. "parse" \in Client!Places /\ (~alive) \in BOOLEAN
          BY DEF Client!Places
    <3>3. call' \in Calls /\ call'.pc = "parse" /\ call'.cmd = call.cmd /\ call'.seq = call.seq
          BY <1>1, <3>1, <3>2 DEF Calls
    <3> QED
        BY <3>1, <3>3, ReadMoves DEF IInv
  <2>2. CASE Client!PollDone
    <3>1. /\ call.pc = "parse" /\ batch = <<>> /\ call.cmd # "process"
          /\ call' = [call EXCEPT !.pc = "wait", !.elapsed = @ + 1]
          /\ UNCHANGED <<seq, pending, batch, alive, received, stream>>
          BY <2>2, PollDoneGoes DEF Client!Idle
    <3>2. "wait" \in Client!Places /\ call.elapsed + 1 \in Int
          BY <1>1 DEF Client!Places, Calls
    <3>3. call' \in Calls /\ call'.pc = "wait" /\ call'.cmd = call.cmd /\ call'.seq = call.seq
          BY <1>1, <3>1, <3>2 DEF Calls
    <3> QED
        BY <3>1, <3>3 DEF IInv, Typed, Unread
  <2> QED
      BY <2>1, <2>2
<1>3. UNCHANGED <<astate, op, disturbed, rawReceived, prog>>
      BY DEF CommandStep, adapterVars
<1>4. Active' <=> Active
      BY <1>2 DEF Active
<1>5. Followed'
      BY <1>2, <1>3, <1>4, Carried DEF IInv
<1>6. Typed' /\ Numbered' /\ Covered'
      BY <1>2, <1>3, <1>4 DEF IInv, Typed, Numbered, Covered
<1> QED
    BY <1>5, <1>6 DEF IInv

\* What the command learned: nothing, a grant or a refusal, each from its own entry.
Learned ==
    ret'.err \in {"SUCCESS", "REQUEST_FAILED"} =>
        \E i \in DOMAIN pending :
            /\ pending[i].seq = call.seq /\ pending[i].completed
            /\ pending[i].success <=> ret'.err = "SUCCESS"

\* A command granted is one after which the adapter shows no stop; for one refused, no
\* answer is left on its way that could say otherwise.
LEMMA ReturnedKeeps ==
    ASSUME IInv, call.pc # "idle", batch = <<>>, call' = Client!Idle,
           UNCHANGED <<seq, pending, batch, stream, received, alive, rawReceived, prog>>,
           IF call.cmd = "process" THEN TurnOver(ret'.err) ELSE Conclude(call.cmd, ret'.err),
           call.cmd # "process" => Learned
    PROVE  IInv'
<1>1. call' \in Calls /\ call'.pc = "idle" /\ ~Active'
      BY IdleTyped DEF Client!Idle, Active
<1>2. /\ disturbed' \in BOOLEAN
      /\ ~disturbed' => ~disturbed
      /\ ~disturbed' /\ Active => ret'.err \in {"SUCCESS", "REQUEST_FAILED"}
      BY DEF TurnOver, Conclude, Active, IInv, Typed
<1>3. UNCHANGED Unread
      BY DEF Unread
<1>4. Typed' /\ Numbered' /\ Covered'
      BY <1>1, <1>2 DEF IInv, Typed, Numbered, Covered
<1>5. Followed'
  <2> SUFFICES ASSUME ~disturbed', alive'
               PROVE  (AnsweredOnce /\ NoNewsYet /\ LastStopHolds /\ ShownStop)'
      BY DEF Followed
  <2>1. AnsweredOnce /\ NoNewsYet /\ LastStopHolds /\ ShownStop /\ ~disturbed
        BY <1>2 DEF IInv, Followed
  <2>2. Active => Noted /\ (GrantNoted => ret'.err = "SUCCESS")
    <3> SUFFICES ASSUME Active PROVE Noted /\ (GrantNoted => ret'.err = "SUCCESS")
        OBVIOUS
    <3>1. PICK i \in DOMAIN pending :
              /\ pending[i].seq = call.seq /\ pending[i].completed
              /\ pending[i].success <=> ret'.err = "SUCCESS"
          BY <1>2 DEF Learned, Active
    <3> QED
        BY <3>1 DEF Noted, GrantNoted, IInv, Numbered
  <2>3. received' = {}
        BY <2>1, <2>2 DEF AnsweredOnce
  <2>4. AnsweredOnce'
        BY <1>1, <2>3 DEF AnsweredOnce
  <2>5. \A i : NoNewsAfter(i)' <=> NoNewsAfter(i)
        BY <1>3 DEF NoNewsAfter, IsNews
  <2>6. \A i : ~GrantedAfter(i)
        BY <2>1, <2>2 DEF GrantedAfter, Releasing, AnsweredOnce
  <2>7. NoNewsYet' /\ LastStopHolds'
    <3>1. astate' = "STOPPED" => astate = "STOPPED"
          BY DEF TurnOver, Conclude, ConcludeInit, ConcludeDisconnect, ConcludeResume
    <3> QED
        BY <1>3, <2>1, <2>5, <2>6, <3>1 DEF NoNewsYet, LastStopHolds
  <2>8. ShownStop'
    <3> SUFFICES ASSUME astate' = "STOPPED", NoNewsAfter(0) PROVE prog = "stopped"
        BY <2>5 DEF ShownStop
    <3>1. astate = "STOPPED" /\ (Releasing => ret'.err # "SUCCESS")
          BY DEF TurnOver, Conclude, ConcludeInit, ConcludeDisconnect, ConcludeResume, Releasing,
              Active, Resuming
    <3>2. ~GrantNoted
          BY <2>2, <3>1 DEF GrantNoted, Releasing
    <3> QED
        BY <2>1, <2>6, <3>1, <3>2 DEF ShownStop
  <2> QED
      BY <2>4, <2>7, <2>8
<1> QED
    BY <1>4, <1>5 DEF IInv

LEMMA CommandStepKeeps ==
    ASSUME IInv, CommandStep
    PROVE  IInv'
<1>1. UNCHANGED <<rawReceived, prog>>
      BY DEF CommandStep
<1>2. CASE Client!SendRequest
      BY <1>2, SendRequestKeeps
<1>3. CASE Client!SendFails
  <2>1. /\ call.pc = "send" /\ call' = Client!Idle /\ ret'.err = "IO_ERROR"
        /\ UNCHANGED <<seq, pending, batch, stream, received, alive>>
        BY <1>3 DEF Client!SendFails, Client!Result
  <2>2. batch = <<>>
        BY <2>1 DEF IInv, Covered
  <2>3. IF call.cmd = "process" THEN TurnOver(ret'.err) ELSE Conclude(call.cmd, ret'.err)
        BY <2>1 DEF CommandStep, Client!Idle
  <2> QED
      BY <1>1, <2>1, <2>2, <2>3, ReturnedKeeps DEF Learned
<1>4. CASE (Client!WaitPoll \/ Client!PollDone) /\ call'.pc # "idle"
      BY <1>4, PollKeeps
<1>5. CASE Client!PollDone /\ call'.pc = "idle"
  <2>1. call \in Calls
        BY DEF IInv, Typed
  <2>2. /\ call.pc = "parse" /\ batch = <<>> /\ call' = Client!Idle
        /\ call.cmd # "process" => ret'.err = "CONNECTION_CLOSED"
        /\ UNCHANGED <<seq, pending, batch, stream, received, alive>>
    <3>1. call' = [call EXCEPT !.pc = "wait", !.elapsed = @ + 1] => call'.pc = "wait"
          BY <2>1 DEF Calls
    <3> QED
        BY <1>5, <3>1, PollDoneGoes
  <2>3. IF call.cmd = "process" THEN TurnOver(ret'.err) ELSE Conclude(call.cmd, ret'.err)
        BY <1>5 DEF CommandStep
  <2> QED
      BY <1>1, <2>2, <2>3, ReturnedKeeps DEF Learned
<1>6. CASE Client!WaitPoll /\ call'.pc = "idle"
  <2>1. call \in Calls
        BY DEF IInv, Typed
  <2> QED
      BY <1>6, <2>1 DEF Client!WaitPoll, Calls
<1>7. CASE Client!WaitOver
  <2>1. /\ call.pc = "wait" /\ call' = Client!Idle
        /\ UNCHANGED <<seq, pending, batch, stream, received, alive>>
        BY <1>7 DEF Client!WaitOver, Client!Return, Client!debugger
  <2>2. Learned
    <3>1. PICK i \in DOMAIN pending :
              /\ Client!FoundAt(i, call.seq)
              /\ \/ ret'.err = "TIMEOUT"
                 \/ pending[i].completed /\ ~pending[i].success /\ ret'.err = "REQUEST_FAILED"
                 \/ pending[i].completed /\ pending[i].success /\ ret'.err = "SUCCESS"
      <4>1. PICK i \in DOMAIN pending :
                /\ Client!FoundAt(i, call.seq)
                /\ \/ Client!Return("TIMEOUT")
                   \/ pending[i].completed /\ ~pending[i].success
                        /\ Client!Return("REQUEST_FAILED")
                   \/ pending[i].completed /\ pending[i].success /\ Client!Return("SUCCESS")
            BY <1>7 DEF Client!WaitOver
      <4> QED
          BY <4>1, ReturnSays
    <3>2. pending[i].seq = call.seq
          BY <3>1 DEF Client!FoundAt
    <3> QED
        BY <3>1, <3>2 DEF Learned
  <2>3. batch = <<>>
        BY <2>1 DEF IInv, Covered
  <2>4. IF call.cmd = "process" THEN TurnOver(ret'.err) ELSE Conclude(call.cmd, ret'.err)
        BY <2>1 DEF CommandStep, Client!Idle
  <2> QED
      BY <1>1, <2>1, <2>2, <2>3, <2>4, ReturnedKeeps
<1> QED
    BY <1>2, <1>3, <1>4, <1>5, <1>6, <1>7 DEF CommandStep

-----------------------------------------------------------------------------
(* The debugger's steps, and the theorem.                                   *)

\* What one more message in the pipe changes.
Longer(m) ==
    /\ Len(Unread) \in Nat
    /\ DOMAIN Unread = 1 .. Len(Unread) /\ DOMAIN Unread' = 1 .. (Len(Unread) + 1)
    /\ Unread'[Len(Unread) + 1] = m
    /\ \A i \in 1 .. Len(Unread) : Unread'[i] = Unread[i]

LEMMA WrittenIsLast ==
    ASSUME IInv, NEW m \in Messages, stream' = Append(stream, m), UNCHANGED <<batch, call>>
    PROVE  /\ stream' \in Seq(Messages) /\ Longer(m)
           /\ UNCHANGED <<Active, Releasing>> /\ \A x : IsReply(x)' <=> IsReply(x)
           /\ \A i : NoNewsAfter(i)' => NoNewsAfter(i)
           /\ \A i : GrantedAfter(i) => GrantedAfter(i)'
           /\ ~IsNews(m) => \A i : NoNewsAfter(i) => NoNewsAfter(i)'
<1>1. batch \in Seq(Messages) /\ stream \in Seq(Messages)
      BY DEF IInv, Typed
<1>2. stream' \in Seq(Messages) /\ Longer(m)
      BY <1>1, AddedLast DEF Longer, Unread
<1>3. UNCHANGED <<Active, Releasing>> /\ \A x : IsReply(x)' <=> IsReply(x)
      BY DEF Active, Releasing, IsReply
<1>4. \A i \in DOMAIN Unread : i \in DOMAIN Unread' /\ Unread'[i] = Unread[i]
      BY <1>2 DEF Longer
<1>5. \A i \in DOMAIN Unread' : i \in DOMAIN Unread \/ Unread'[i] = m
      BY <1>2 DEF Longer
<1>6. \A i : NoNewsAfter(i)' => NoNewsAfter(i)
      BY <1>4 DEF NoNewsAfter, IsNews
<1>7. \A i : GrantedAfter(i) => GrantedAfter(i)'
      BY <1>3, <1>4 DEF GrantedAfter
<1>8. ~IsNews(m) => \A i : NoNewsAfter(i) => NoNewsAfter(i)'
      BY <1>4, <1>5 DEF NoNewsAfter, IsNews
<1> QED
    BY <1>2, <1>3, <1>6, <1>7, <1>8

\* News of the program: that it stopped, or that it no longer is.
LEMMA EmitKeeps ==
    ASSUME IInv, NEW e \in EventNames, Client!Emit(e),
           UNCHANGED <<adapterVars, rawReceived, disturbed>>,
           \/ e = "stopped" /\ prog' = "stopped"
           \/ e \notin {"stopped", "initialized"} /\ prog' # "none"
    PROVE  IInv'
<1> DEFINE m == [type |-> "event", event |-> e]
           n == Len(Unread)
<1>1. /\ m \in Messages /\ stream' = Append(stream, m)
      /\ UNCHANGED <<seq, pending, call, batch, received, alive, rawReceived, astate, op,
                     disturbed>>
      BY DEF Client!Emit, Client!client, Messages, adapterVars
<1>2. /\ stream' \in Seq(Messages) /\ Longer(m)
      /\ UNCHANGED <<Active, Releasing>> /\ \A x : IsReply(x)' <=> IsReply(x)
      BY <1>1, WrittenIsLast
<1>3. Typed' /\ Numbered' /\ Covered'
      BY <1>1, <1>2 DEF IInv, Typed, Numbered, Covered
<1>4. Followed'
  <2> SUFFICES ASSUME ~disturbed', alive'
               PROVE  (AnsweredOnce /\ NoNewsYet /\ LastStopHolds /\ ShownStop)'
      BY DEF Followed
  <2>1. AnsweredOnce
        BY <1>1 DEF IInv, Followed
  <2>2. ~IsReply(m) /\ IsNews(m)
        BY DEF IsReply, IsNews
  <2>3. \A i \in DOMAIN Unread' : IsReply(Unread'[i]) => i \in DOMAIN Unread /\ Unread'[i] = Unread[i]
        BY <1>2, <2>2 DEF Longer
  <2>4. Noted' <=> Noted
        BY <1>1 DEF Noted
  <2>5. AnsweredOnce'
        BY <1>1, <1>2, <2>1, <2>3, <2>4 DEF AnsweredOnce
  <2>6. CASE prog' = "stopped"
        BY <2>5, <2>6 DEF NoNewsYet, LastStopHolds, ShownStop
  <2>7. CASE e # "stopped" /\ prog' # "none"
    <3>1. n + 1 \in DOMAIN Unread' /\ Unread'[n + 1] = m /\ n + 1 > 0
          BY <1>2 DEF Longer
    <3>2. ~NoNewsAfter(0)'
          BY <2>2, <3>1 DEF NoNewsAfter, IsNews
    <3>3. ASSUME NEW i \in DOMAIN Unread', Unread'[i].type = "event", Unread'[i].event = "stopped"
          PROVE  ~NoNewsAfter(i)'
      <4>1. i # n + 1
            BY <2>7, <3>1, <3>3
      <4>2. n + 1 > i
            BY <1>2, <4>1 DEF Longer
      <4> QED
          BY <2>2, <3>1, <4>2 DEF NoNewsAfter, IsNews
    <3> QED
        BY <2>5, <2>7, <3>2, <3>3 DEF NoNewsYet, LastStopHolds, ShownStop
  <2> QED
      BY <2>6, <2>7
<1> QED
    BY <1>3, <1>4 DEF IInv

\* The debugger answers the command under way, and may let the program go.
LEMMA AnswerCommandKeeps ==
    ASSUME IInv, AnswerCommand
    PROVE  IInv'
<1>1. PICK r \in received, ok \in BOOLEAN :
          Client!Answer(r, ok) /\ IF ok THEN Effect(r.cmd) ELSE UNCHANGED prog
      BY DEF AnswerCommand
<1> DEFINE m == [type |-> "response", seq |-> r.seq, success |-> ok]
           n == Len(Unread)
<1>2. r \in [seq : Nat, cmd : Commands]
      BY DEF IInv, Typed
<1>3. /\ m \in Messages /\ stream' = Append(stream, m) /\ received' = received \ {r}
      /\ UNCHANGED <<seq, pending, call, batch, alive, rawReceived, astate, op, disturbed>>
      BY <1>1, <1>2 DEF AnswerCommand, Client!Answer, Client!client, Messages, adapterVars
<1>4. /\ stream' \in Seq(Messages) /\ Longer(m)
      /\ UNCHANGED <<Active, Releasing>> /\ \A x : IsReply(x)' <=> IsReply(x)
      /\ \A i : NoNewsAfter(i)' => NoNewsAfter(i)
      /\ \A i : GrantedAfter(i) => GrantedAfter(i)'
      /\ \A i : NoNewsAfter(i) => NoNewsAfter(i)'
  <2>1. ~IsNews(m)
        BY DEF IsNews
  <2> QED
      BY <1>3, <2>1, WrittenIsLast
<1>5. Typed' /\ Numbered' /\ Covered'
      BY <1>3, <1>4 DEF IInv, Typed, Numbered, Covered
<1>6. Followed'
  <2> SUFFICES ASSUME ~disturbed', alive'
               PROVE  (AnsweredOnce /\ NoNewsYet /\ LastStopHolds /\ ShownStop)'
      BY DEF Followed
  <2>1. AnsweredOnce /\ NoNewsYet /\ LastStopHolds /\ ShownStop
        BY <1>3 DEF IInv, Followed
  <2>2. /\ Active /\ call.pc # "send" /\ r.seq = call.seq /\ r.cmd = call.cmd
        /\ ~Noted /\ \A i \in DOMAIN Unread : ~IsReply(Unread[i])
        BY <2>1 DEF AnsweredOnce
  <2>3. received' = {}
    <3>1. \A q \in received : q = r
          BY <1>2, <2>1, <2>2 DEF AnsweredOnce, IInv, Typed
    <3> QED
        BY <1>3, <3>1
  <2>4. \A i \in DOMAIN Unread' : IsReply(Unread'[i]) => i = n + 1
        BY <1>4, <2>2 DEF Longer
  <2>5. ~Noted' /\ UNCHANGED GrantNoted
        BY <1>3, <1>4, <2>2 DEF Noted, GrantNoted
  <2>6. AnsweredOnce'
        BY <1>3, <1>4, <2>1, <2>2, <2>3, <2>4, <2>5 DEF AnsweredOnce
  <2>7. n + 1 \in DOMAIN Unread' /\ Unread'[n + 1] = m /\ IsReply(m)
        BY <1>4, <2>2 DEF Longer, IsReply
  <2>8. \A i \in DOMAIN Unread' : Unread'[i].type = "event" =>
            i \in DOMAIN Unread /\ Unread'[i] = Unread[i] /\ n + 1 > i
    <3>1. m.type # "event"
          OBVIOUS
    <3> QED
        BY <1>4, <3>1 DEF Longer
  <2>9. CASE UNCHANGED prog
    <3>1. NoNewsYet' /\ ShownStop'
          BY <1>3, <1>4, <2>1, <2>5, <2>9 DEF NoNewsYet, ShownStop
    <3>2. LastStopHolds'
          BY <1>4, <2>1, <2>8, <2>9 DEF LastStopHolds
    <3> QED
        BY <2>6, <3>1, <3>2
  <2>10. CASE ok /\ r.cmd \in Resuming \cup {"disconnect"}
    <3>1. Releasing' /\ m.success
          BY <1>4, <2>2, <2>10 DEF Releasing
    <3>2. \A i : n + 1 > i => GrantedAfter(i)'
          BY <1>4, <2>7, <3>1 DEF GrantedAfter
    <3>3. n + 1 > 0
          BY <1>4 DEF Longer
    <3>4. prog' # "none"
          BY <1>1, <2>10 DEF Effect, Resuming
    <3> QED
        BY <2>6, <2>8, <3>2, <3>3, <3>4 DEF NoNewsYet, LastStopHolds, ShownStop
  <2> QED
      BY <1>1, <1>2, <2>9, <2>10 DEF Effect, Commands, Resuming
<1> QED
    BY <1>5, <1>6 DEF IInv

\* An answer to a request around the table is not the command's, and can only start a
\* program that never ran.
LEMMA AnswerRawKeeps ==
    ASSUME IInv, AnswerRaw
    PROVE  IInv'
<1>1. PICK r \in rawReceived, ok \in BOOLEAN :
          /\ Client!Answer(r, ok) /\ rawReceived' = rawReceived \ {r}
          /\ IF ok THEN Effect(r.cmd) ELSE UNCHANGED prog
      BY DEF AnswerRaw
<1> DEFINE m == [type |-> "response", seq |-> r.seq, success |-> ok]
           n == Len(Unread)
<1>2. r \in [seq : Nat, cmd : RawCommands]
      BY DEF IInv, Typed
<1>3. /\ m \in Messages /\ stream' = Append(stream, m) /\ received' = received \ {r}
      /\ UNCHANGED <<seq, pending, call, batch, alive, astate, op, disturbed>>
      BY <1>1, <1>2 DEF AnswerRaw, Client!Answer, Client!client, Messages, adapterVars
<1>4. /\ stream' \in Seq(Messages) /\ Longer(m)
      /\ UNCHANGED <<Active, Releasing>> /\ \A x : IsReply(x)' <=> IsReply(x)
      /\ \A i : NoNewsAfter(i)' => NoNewsAfter(i)
      /\ \A i : GrantedAfter(i) => GrantedAfter(i)'
      /\ \A i : NoNewsAfter(i) => NoNewsAfter(i)'
  <2>1. ~IsNews(m)
        BY DEF IsNews
  <2> QED
      BY <1>3, <2>1, WrittenIsLast
<1>5. Typed' /\ Numbered' /\ Covered'
      BY <1>1, <1>3, <1>4 DEF IInv, Typed, Numbered, Covered
<1>6. Followed'
  <2> SUFFICES ASSUME ~disturbed', alive'
               PROVE  (AnsweredOnce /\ NoNewsYet /\ LastStopHolds /\ ShownStop)'
      BY DEF Followed
  <2>1. AnsweredOnce /\ NoNewsYet /\ LastStopHolds /\ ShownStop
        BY <1>3 DEF IInv, Followed
  <2>2. Active => ~IsReply(m)
        BY <2>1 DEF AnsweredOnce, IsReply
  <2>3. Active => \A i \in DOMAIN Unread' :
                      IsReply(Unread'[i]) => i \in DOMAIN Unread /\ Unread'[i] = Unread[i]
        BY <1>4, <2>2 DEF Longer
  <2>4. UNCHANGED <<Noted, GrantNoted>>
        BY <1>3, <1>4 DEF Noted, GrantNoted
  <2>5. received # {} => Active
        BY <2>1 DEF AnsweredOnce
  <2>6. AnsweredOnce'
        BY <1>1, <1>3, <1>4, <2>1, <2>3, <2>4, <2>5 DEF AnsweredOnce
  <2>7. \A i \in DOMAIN Unread' : Unread'[i].type = "event" =>
            i \in DOMAIN Unread /\ Unread'[i] = Unread[i]
    <3>1. m.type # "event"
          OBVIOUS
    <3> QED
        BY <1>4, <3>1 DEF Longer
  <2>8. CASE UNCHANGED prog
    <3>1. NoNewsYet' /\ ShownStop'
          BY <1>3, <1>4, <2>1, <2>4, <2>8 DEF NoNewsYet, ShownStop
    <3>2. LastStopHolds'
          BY <1>4, <2>1, <2>7, <2>8 DEF LastStopHolds
    <3> QED
        BY <2>6, <3>1, <3>2
  <2>9. CASE prog = "none" /\ prog' = "running"
    <3>1. NoNewsAfter(0) /\ astate # "STOPPED"
          BY <2>1, <2>9 DEF NoNewsYet
    <3>2. \A i \in DOMAIN Unread : ~(Unread[i].type = "event" /\ Unread[i].event = "stopped")
      <4>1. \A i \in DOMAIN Unread : i > 0
            BY <1>4 DEF Longer
      <4> QED
          BY <3>1, <4>1 DEF NoNewsAfter, IsNews
    <3> QED
        BY <1>3, <2>6, <2>7, <2>9, <3>1, <3>2 DEF NoNewsYet, LastStopHolds, ShownStop
  <2> QED
      BY <1>1, <1>2, <2>8, <2>9 DEF Effect, RawCommands, Resuming
<1> QED
    BY <1>5, <1>6 DEF IInv

LEMMA DebuggerDiesKeeps ==
    ASSUME IInv, DebuggerDies
    PROVE  IInv'
<1>1. /\ alive' = FALSE
      /\ UNCHANGED <<seq, pending, call, batch, stream, received, rawReceived, op, disturbed>>
      BY DEF DebuggerDies, Client!Exit, Client!client, adapterVars
<1> QED
    BY <1>1 DEF IInv, Typed, Numbered, Covered, Followed, Active

THEOREM Inductive == Spec => []IInv
<1>1. IInv /\ [Next]_vars => IInv'
  <2> SUFFICES ASSUME IInv, [Next]_vars PROVE IInv'
      OBVIOUS
  <2>1. ASSUME NEW c \in Commands, Begin(c) \/ BeginRefused(c) PROVE IInv'
        BY <2>1, BeginKeeps, BeginRefusedKeeps
  <2>2. CASE LldbInit \/ LldbDisconnect \/ LldbContinue \/ LldbStepOver \/ LldbStepInto
               \/ LldbStepOut
        BY <2>1, <2>2 DEF LldbInit, LldbDisconnect, LldbContinue, LldbStepOver, LldbStepInto,
            LldbStepOut, Resume, Commands, Resuming
  <2>3. CASE LldbLaunch \/ LldbAttach \/ LldbPause \/ LldbQueryData \/ LldbQueryStack
        BY <2>3, RawKeeps DEF LldbLaunch, LldbAttach, LldbPause, LldbQueryData, LldbQueryStack,
            Unheard, RawCommands
  <2>4. CASE (\E t \in WaitPolls : WaitForStop(t)) \/ ProcessEvents \/ WaitTurn
        BY <2>4, WaitForStopKeeps, PumpKeeps
  <2>5. CASE HandleMessage
    <3>1. Head(batch).type \in {"event", "response"}
          BY <2>5 DEF HandleMessage, Client!ProcessMessage
    <3> QED
        BY <2>5, <3>1, EventKeeps, ResponseKeeps
  <2>6. CASE DropMessage \/ CommandStep
        BY <2>6, DropKeeps, CommandStepKeeps
  <2>7. CASE AnswerCommand \/ AnswerRaw \/ DebuggerDies
        BY <2>7, AnswerCommandKeeps, AnswerRawKeeps, DebuggerDiesKeeps
  <2>8. CASE ProgramStops \/ ProgramResumes \/ ProgramExits
        BY <2>8, EmitKeeps DEF ProgramStops, ProgramResumes, ProgramExits, EventNames
  <2>9. CASE UNCHANGED vars
        BY <2>9, StutterKeeps
  <2> QED
      BY <2>2, <2>3, <2>4, <2>5, <2>6, <2>7, <2>8, <2>9 DEF Next, AdapterStep
<1> QED
    BY <1>1, InitIInv, PTL DEF Spec

\* Once everything is read, a program the adapter shows stopped is stopped, unless a
\* message was lost, a number shared or a command given up.
THEOREM ShownStopIsTrue == Spec => []ShownStopHolds
<1>1. IInv => ShownStopHolds
  <2> SUFFICES ASSUME IInv, Quiet, ~disturbed, alive, astate = "STOPPED" PROVE prog = "stopped"
      BY DEF ShownStopHolds
  <2>1. Len(<<>>) = 0 /\ Unread = <<>>
        BY EmptySeq, ConcatEmptySeq DEF Quiet, Unread
  <2>2. DOMAIN Unread = {}
        BY <2>1
  <2>3. ~Active
        BY DEF IInv, Covered, Quiet, Active
  <2>4. ~GrantedAfter(0) /\ ~GrantNoted /\ NoNewsAfter(0)
        BY <2>2, <2>3 DEF GrantedAfter, GrantNoted, Releasing, NoNewsAfter
  <2> QED
      BY <2>4 DEF IInv, Followed, ShownStop
<1> QED
    BY <1>1, Inductive, PTL

-----------------------------------------------------------------------------
(* The two copies.  Every step that writes one writes what fits the other;   *)
(* for a program that has not begun this needs that nothing is heard of it   *)
(* before the adapter is initialized.                                       *)

Unbegun ==
    /\ astate = "NONE" => prog \in {"none", "ended"} /\ rawReceived = {} /\ NoNewsAfter(0)
    /\ call.pc # "idle" /\ call.cmd = "initialize" => astate = "NONE"

LEMMA UnbegunBegins ==
    ASSUME Unbegun, Typed, NEW c \in Commands, Begin(c) \/ BeginRefused(c),
           c = "initialize" <=> astate = "NONE"
    PROVE  Unbegun'
<1>1. /\ UNCHANGED <<batch, stream, rawReceived, prog>>
      /\ astate' = astate \/ astate' = "TERMINATED"
      /\ c = "initialize" => UNCHANGED astate
      BY DEF Begin, BeginRefused, Client!Start, Client!StartRefused, Client!debugger
<1>2. UNCHANGED call \/ call' = [Client!Idle EXCEPT !.pc = "send", !.cmd = c, !.seq = seq]
      BY DEF Begin, BeginRefused, Client!Start, Client!StartRefused
<1>3. UNCHANGED call \/ call'.cmd = c
      BY <1>2, IdleTyped DEF Client!Idle
<1>4. call.pc = "idle"
      BY DEF Begin, BeginRefused, Client!Start, Client!StartRefused
<1>5. NoNewsAfter(0)' <=> NoNewsAfter(0)
      BY <1>1 DEF NoNewsAfter, Unread, IsNews
<1> QED
    BY <1>1, <1>3, <1>4, <1>5 DEF Unbegun

\* A message moves up, and is gone.
LEMMA UnbegunHandles ==
    ASSUME Unbegun, IInv, HandleMessage \/ DropMessage
    PROVE  Unbegun'
<1>1. /\ batch # <<>> /\ batch' = Tail(batch)
      /\ UNCHANGED <<stream, call, rawReceived, prog>>
      BY DEF HandleMessage, DropMessage, Client!ProcessMessage, Client!LoseMessage,
          Client!debugger, adapterVars
<1>2. MovedUp(Head(batch))
      BY <1>1, HandledMovesUp
<1>3. NoNewsAfter(0) => NoNewsAfter(0)' /\ ~IsNews(Head(batch))
  <2>1. \A i \in DOMAIN Unread' : i + 1 \in DOMAIN Unread /\ Unread'[i] = Unread[i + 1] /\ i + 1 > 0
        BY <1>2 DEF MovedUp
  <2>2. 1 \in DOMAIN Unread /\ Unread[1] = Head(batch)
        BY <1>2 DEF MovedUp
  <2> QED
      BY <2>1, <2>2 DEF NoNewsAfter, IsNews
<1>4. astate = "NONE" => astate' = "NONE"
  <2>1. CASE UNCHANGED astate
        BY <2>1
  <2>2. CASE Head(batch).type = "event" /\ OnEvent(Head(batch).event)
    <3>1. ~IsNews(Head(batch)) => Head(batch).event = "initialized"
          BY <2>2 DEF IsNews
    <3>2. Head(batch).event = "initialized" => astate' = astate
          BY <2>2 DEF OnEvent, Shown
    <3> QED
        BY <1>3, <3>1, <3>2 DEF Unbegun
  <2> QED
      BY <2>1, <2>2 DEF HandleMessage, DropMessage, adapterVars
<1>5. astate' = "NONE" => astate = "NONE"
      BY DEF HandleMessage, DropMessage, OnEvent, Shown, adapterVars
<1> QED
    BY <1>1, <1>3, <1>4, <1>5 DEF Unbegun

\* What a step of a command leaves: its name, unless it is over, and what was to be read.
LEMMA CommandGoesOn ==
    ASSUME IInv, CommandStep
    PROVE  /\ call.pc # "idle"
           /\ call'.pc = "idle" \/ (call'.cmd = call.cmd /\ UNCHANGED <<astate, exec>>)
           /\ Unread' = Unread
<1>1. call \in Calls /\ call.pc \in Client!Places
      BY DEF IInv, Typed, Calls
<1>2. CASE Client!SendRequest
  <2>1. call.pc = "send" /\ call' = [call EXCEPT !.pc = "wait"] /\ UNCHANGED <<batch, stream>>
        BY <1>2 DEF Client!SendRequest
  <2>2. call'.pc = "wait" /\ call'.cmd = call.cmd
        BY <1>1, <2>1 DEF Calls
  <2> QED
      BY <2>1, <2>2 DEF CommandStep, adapterVars, Unread
<1>3. CASE Client!SendFails \/ Client!WaitOver
  <2>1. call.pc \in {"send", "wait"} /\ call' = Client!Idle /\ UNCHANGED <<batch, stream>>
        BY <1>3 DEF Client!SendFails, Client!WaitOver, Client!Return, Client!debugger
  <2> QED
      BY <2>1 DEF Client!Idle, Unread
<1>4. CASE Client!WaitPoll
  <2>1. call.pc = "wait" /\ call' = [call EXCEPT !.pc = "parse", !.hup = ~alive]
        /\ Client!ReadSome
        BY <1>4 DEF Client!WaitPoll
  <2>2. call'.pc = "parse" /\ call'.cmd = call.cmd
        BY <1>1, <2>1 DEF Calls
  <2> QED
      BY <2>1, <2>2, ReadMoves DEF IInv, CommandStep, adapterVars
<1>5. CASE Client!PollDone
  <2>1. /\ call.pc = "parse" /\ UNCHANGED <<batch, stream>>
        /\ call' = Client!Idle \/ call' = [call EXCEPT !.pc = "wait", !.elapsed = @ + 1]
        BY <1>5, PollDoneGoes
  <2>2. call'.pc = "idle" \/ (call'.pc = "wait" /\ call'.cmd = call.cmd)
    <3>1. CASE call' = Client!Idle
          BY <3>1 DEF Client!Idle
    <3>2. CASE call' = [call EXCEPT !.pc = "wait", !.elapsed = @ + 1]
          BY <1>1, <3>2 DEF Calls
    <3> QED
        BY <2>1, <3>1, <3>2
  <2> QED
      BY <2>1, <2>2 DEF CommandStep, adapterVars, Unread
<1> QED
    BY <1>2, <1>3, <1>4, <1>5 DEF CommandStep

LEMMA UnbegunSteps ==
    ASSUME Unbegun, IInv, CommandStep
    PROVE  Unbegun'
<1>1. /\ call'.pc = "idle" \/ (call'.cmd = call.cmd /\ UNCHANGED astate /\ call.pc # "idle")
      /\ Unread' = Unread /\ UNCHANGED <<rawReceived, prog>>
      BY CommandGoesOn DEF CommandStep
<1>2. astate' = "NONE" => astate = "NONE"
      BY DEF CommandStep, TurnOver, Conclude, ConcludeInit, ConcludeResume, ConcludeDisconnect,
          adapterVars
<1>3. NoNewsAfter(0)' <=> NoNewsAfter(0)
      BY <1>1 DEF NoNewsAfter, IsNews
<1> QED
    BY <1>1, <1>2, <1>3 DEF Unbegun

\* Before the adapter is initialized the debugger has no program to report of.
LEMMA UnbegunHears ==
    ASSUME Unbegun, IInv,
           \/ AnswerCommand \/ AnswerRaw \/ ProgramStops \/ ProgramResumes \/ ProgramExits
           \/ DebuggerDies
    PROVE  Unbegun'
<1>1. UNCHANGED <<call, astate>>
      BY DEF AnswerCommand, AnswerRaw, ProgramStops, ProgramResumes, ProgramExits, DebuggerDies,
          Client!Answer, Client!Emit, Client!Exit, Client!client, adapterVars
<1> SUFFICES ASSUME astate = "NONE"
             PROVE  prog' \in {"none", "ended"} /\ rawReceived' = {} /\ NoNewsAfter(0)'
    BY <1>1 DEF Unbegun
<1>2. prog \in {"none", "ended"} /\ rawReceived = {} /\ NoNewsAfter(0)
      BY DEF Unbegun
<1>3. CASE AnswerCommand
  <2>1. PICK q \in received, ok \in BOOLEAN :
            Client!Answer(q, ok) /\ IF ok THEN Effect(q.cmd) ELSE UNCHANGED prog
        BY <1>3 DEF AnswerCommand
  <2>2. q \in [seq : Nat, cmd : Commands] /\ q.cmd \notin {"launch", "attach"}
        BY DEF IInv, Typed, Commands, Resuming
  <2> DEFINE m == [type |-> "response", seq |-> q.seq, success |-> ok]
  <2>3. m \in Messages /\ ~IsNews(m) /\ stream' = Append(stream, m) /\ UNCHANGED batch
        BY <2>1, <2>2 DEF Client!Answer, Client!client, Messages, IsNews
  <2>4. NoNewsAfter(0)'
        BY <1>1, <1>2, <2>3, WrittenIsLast
  <2>5. prog' \in {"none", "ended"}
        BY <1>2, <2>1, <2>2 DEF Effect
  <2> QED
      BY <1>2, <1>3, <2>4, <2>5 DEF AnswerCommand
<1>4. CASE DebuggerDies
      BY <1>2, <1>4 DEF DebuggerDies, Client!Exit, Client!client, NoNewsAfter, Unread, IsNews
<1> QED
    BY <1>2, <1>3, <1>4 DEF AnswerRaw, ProgramStops, ProgramResumes, ProgramExits

LEMMA UnbegunKept == Unbegun /\ IInv /\ [Next]_vars => Unbegun'
<1> SUFFICES ASSUME Unbegun, IInv, [Next]_vars PROVE Unbegun'
    OBVIOUS
<1>1. CASE LldbInit \/ LldbDisconnect \/ LldbContinue \/ LldbStepOver \/ LldbStepInto
             \/ LldbStepOut
      BY <1>1, UnbegunBegins DEF LldbInit, LldbDisconnect, LldbContinue, LldbStepOver,
          LldbStepInto, LldbStepOut, Resume, Ready, Commands, Resuming, IInv
<1>2. CASE LldbLaunch \/ LldbAttach \/ LldbPause \/ LldbQueryData \/ LldbQueryStack
  <2>1. UNCHANGED clientVars /\ astate # "NONE" /\ astate' # "NONE" /\ call.pc = "idle"
        BY <1>2 DEF LldbLaunch, LldbAttach, LldbPause, LldbQueryData, LldbQueryStack,
            Unheard, Raw, RawUnsent, Ready
  <2> QED
      BY <2>1 DEF Unbegun, clientVars
<1>3. CASE (\E t \in WaitPolls : WaitForStop(t)) \/ ProcessEvents \/ WaitTurn
  <2>1. /\ UNCHANGED <<astate, rawReceived, prog>>
        /\ UNCHANGED <<call, batch, stream>> \/ (Client!ProcessMessages /\ Client!ReadSome)
        BY <1>3 DEF WaitForStop, ProcessEvents, WaitTurn, clientVars, adapterVars,
            Client!ProcessMessages
  <2>2. Unread' = Unread
        BY <2>1, ReadMoves DEF IInv, Unread
  <2>3. UNCHANGED call \/ call'.cmd = "process"
        BY <2>1 DEF Client!ProcessMessages, Client!Idle
  <2> QED
      BY <2>1, <2>2, <2>3 DEF Unbegun, NoNewsAfter, IsNews
<1>4. CASE HandleMessage \/ DropMessage
      BY <1>4, UnbegunHandles
<1>5. CASE CommandStep
      BY <1>5, UnbegunSteps
<1>6. CASE \/ AnswerCommand \/ AnswerRaw \/ ProgramStops \/ ProgramResumes \/ ProgramExits
           \/ DebuggerDies
      BY <1>6, UnbegunHears
<1>7. CASE UNCHANGED vars
      BY <1>7 DEF vars, Unbegun, NoNewsAfter, Unread, IsNews
<1> QED
    BY <1>1, <1>2, <1>3, <1>4, <1>5, <1>6, <1>7 DEF Next, AdapterStep

LEMMA CopiesKept == CopiesAgree /\ Unbegun /\ IInv /\ [Next]_vars => CopiesAgree'
<1> SUFFICES ASSUME CopiesAgree, Unbegun, IInv, [Next]_vars PROVE CopiesAgree'
    OBVIOUS
<1>1. CASE UNCHANGED <<astate, exec>>
      BY <1>1 DEF CopiesAgree
<1>2. ASSUME NEW c \in Commands, Begin(c) \/ BeginRefused(c)
      PROVE  CopiesAgree'
      BY <1>1, <1>2 DEF Begin, BeginRefused, CopiesAgree
<1>3. CASE LldbLaunch
      BY <1>3 DEF LldbLaunch, CopiesAgree
<1>4. CASE HandleMessage
  <2>1. CASE Head(batch).type = "event"
    <3>1. OnEvent(Head(batch).event)
          BY <1>4, <2>1 DEF HandleMessage
    <3> QED
        BY <3>1 DEF OnEvent, Shown, CopiesAgree
  <2>2. CASE Head(batch).type # "event"
        BY <1>1, <1>4, <2>2 DEF HandleMessage
  <2> QED
      BY <2>1, <2>2
<1>5. CASE CommandStep
  <2>1. CASE Conclude(call.cmd, ret'.err)
    <3>1. call.cmd = "initialize" => exec = "NONE"
          BY <1>5, CommandGoesOn DEF Unbegun, CopiesAgree
    <3> QED
        BY <1>1, <2>1, <3>1 DEF Conclude, ConcludeInit, ConcludeDisconnect, ConcludeResume,
            ExecAfter, CopiesAgree, Resuming
  <2>2. CASE TurnOver(ret'.err)
        BY <1>1, <2>2 DEF TurnOver
  <2>3. CASE UNCHANGED adapterVars
        BY <1>1, <2>3 DEF adapterVars
  <2> QED
      BY <1>5, <2>1, <2>2, <2>3 DEF CommandStep
<1>6. CASE \/ LldbAttach \/ LldbPause \/ LldbQueryData \/ LldbQueryStack
           \/ (\E t \in WaitPolls : WaitForStop(t)) \/ ProcessEvents
           \/ WaitTurn \/ DropMessage \/ AnswerCommand \/ AnswerRaw
           \/ ProgramStops \/ ProgramResumes \/ ProgramExits \/ DebuggerDies
           \/ UNCHANGED vars
      BY <1>1, <1>6 DEF LldbAttach, LldbPause, LldbQueryData, LldbQueryStack, Unheard,
          WaitForStop, ProcessEvents, WaitTurn, DropMessage, AnswerCommand, AnswerRaw,
          ProgramStops, ProgramResumes, ProgramExits, DebuggerDies, adapterVars, vars
<1> QED
    BY <1>2, <1>3, <1>4, <1>5, <1>6 DEF Next, AdapterStep, LldbInit, LldbDisconnect,
        LldbContinue, LldbStepOver, LldbStepInto, LldbStepOut, Resume, Commands, Resuming

\* As long as the adapter shows a program that has not begun, runs or is stopped, the state
\* model shows the same, whatever the debugger sends, with a body or without, and whatever a
\* command returns.  Of LAUNCHING, ERROR and TERMINATED it says nothing.
THEOREM CopiesAlwaysAgree == Spec => []CopiesAgree
<1>1. Init => CopiesAgree /\ Unbegun
  <2> SUFFICES ASSUME Init PROVE CopiesAgree /\ Unbegun
      OBVIOUS
  <2>1. /\ astate = "NONE" /\ exec = "NONE" /\ prog = "none" /\ rawReceived = {}
        /\ batch = <<>> /\ stream = <<>> /\ call = Client!Idle
        BY DEF Init, Client!Init
  <2>2. Unread = <<>> /\ DOMAIN Unread = {}
        BY <2>1, EmptySeq, ConcatEmptySeq DEF Unread
  <2>3. call.pc = "idle" /\ NoNewsAfter(0)
        BY <2>1, <2>2 DEF Client!Idle, NoNewsAfter
  <2> QED
      BY <2>1, <2>3 DEF CopiesAgree, Unbegun
<1> QED
    BY <1>1, UnbegunKept, CopiesKept, Inductive, PTL DEF Spec
===============================================================================
