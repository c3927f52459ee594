-------------------------- MODULE TextAdapterProofs --------------------------
(***************************************************************************)
(* What the front end is shown of a debugger that is spoken to in text:      *)
(* gdb_adapter.c and shell_adapter.c.                                        *)
(*                                                                          *)
(* Both invariants speak of quiet moments, with nothing under way, and       *)
(* neither is inductive: between two such moments the debugger answers,      *)
(* refuses, stops and dies while the adapter reads, and what it reads may    *)
(* answer another command.  What is kept at every step is                    *)
(*   Kept   the list is what the debugger will have once it has read the     *)
(*          deletions on their way, except while a breakpoint is being set,  *)
(*          and then one of the three stages of Setting is reached;          *)
(*   Shown  the last notice on its way is true of the program, or what is    *)
(*          shown is, or else a command on its way will let the program go;  *)
(*          the shell's continue and steps are at a stage of ShellWaits;     *)
(* both until something is lost (Lost) that its reader does not look for.    *)
(***************************************************************************)
EXTENDS TextAdapters, SequenceTheorems, WellFoundedInduction, TLAPS

-----------------------------------------------------------------------------
(* The invariant.                                                           *)

Where == Places \cup {CHOOSE p \in Places : TRUE}
Commands == [cmd : {"none", "break", "delete", "evaluate", "continue", "step", "launch", "run",
                    "resume", "set", "interrupt", "exit", "empty"},
             num : Nat, place : Where]
Notices == {"stopped", "running", "terminated"}
Outputs == [what : Notices \cup {"prompt", "bkpt", "done", "refused"}, num : Nat]
Breakpoints == [num : Nat, place : Where]
Ops == [cmd : Commands, text : Seq(Outputs), left : Int, clean : BOOLEAN]

Typed ==
    /\ kind \in Kinds /\ astate \in States /\ prog \in {"none", "running", "stopped", "ended"}
    /\ listed \in Seq(Breakpoints) /\ bps \in SUBSET Breakpoints
    /\ counter \in Nat /\ made \in Nat
    /\ cmds \in Seq(Commands) /\ out \in Seq(Outputs)
    /\ op \in Ops

\* The command c is on its way to the debugger, or the deletion of breakpoint n.
Has(q, c) == \E i \in DOMAIN q : q[i].cmd = c
Deletes(q, n) == \E i \in DOMAIN q : q[i].cmd = "delete" /\ q[i].num = n

\* Each adapter sends its own commands, and its debugger says its own.
OfKind ==
    /\ op.cmd.cmd \in {"none", "break", "evaluate", "continue", "step", "launch"}
    /\ op.cmd.cmd = "none" => op = NoOp
    /\ kind = "gdb" =>
          /\ op.cmd.cmd \notin {"continue", "step", "launch"}
          /\ ~Has(cmds, "continue") /\ ~Has(cmds, "step") /\ ~Says(out, "terminated")
    /\ kind = "shell" =>
          ~Has(cmds, "run") /\ ~Has(cmds, "resume") /\ ~Says(out, "running")

\* Before a session was granted there is nothing.
Early == astate = "NONE" => ~alive /\ listed = <<>> /\ op = NoOp /\ prog = "none"

\* Nobody but the adapter that awaits it hears the new debugger's greeting, and nothing
\* was sent but the empty line.
Greeted ==
    alive /\ op.cmd.cmd = "launch" =>
        /\ \A c : Has(cmds, c) => c = "empty"
        /\ prog = "stopped" /\ \A w \in Notices \cup {"refused"} : ~Says(out, w)

-----------------------------------------------------------------------------
(* Breakpoints.                                                             *)

\* A number names one breakpoint.
NumbersOf(l) == \A i, j \in DOMAIN l : l[i].num = l[j].num => i = j
Numbers ==
    /\ \A b \in bps : b.num \in 1 .. made
    /\ \A b, d \in bps : b.num = d.num => b = d

\* The list is what the debugger will have when it has read the deletions on their way.
Matched == ToSet(listed) = {b \in bps : ~Deletes(cmds, b.num)}

\* Nothing the debugger said of a breakpoint is still to be read, or about to be used.
Unspoken == ~Says(op.text, "bkpt") /\ ~Says(out, "bkpt")

\* No breakpoint but number n is mentioned.
Mentions(s, n) == \A i \in DOMAIN s : s[i].what = "bkpt" => s[i].num = n

\* The debugger has set the breakpoint b, the answer is on its way or read so far.
Spoken(b) ==
    /\ b \in bps /\ b.place = op.cmd.place /\ b.num = made /\ ToSet(listed) = bps \ {b}
    /\ Mentions(op.text, made) /\ Mentions(out, made)

\* Setting one with nothing else on its way: asked, then granted or refused.
Setting ==
    \/ cmds = <<op.cmd>> /\ ToSet(listed) = bps /\ Unspoken
    \/ cmds = <<>> /\ ToSet(listed) = bps /\ Unspoken
    \/ cmds = <<>> /\ \E b \in bps : Spoken(b)

Kept ==
    alive /\ sound =>
        /\ NumbersOf(listed)
        /\ op.cmd.cmd # "break" => ~Has(cmds, "break") /\ Matched
        /\ op.cmd.cmd = "break" /\ op.clean => Setting

-----------------------------------------------------------------------------
(* What is shown.                                                           *)

Silent(s) == \A w \in Notices : ~Says(s, w)

\* The last notice in s is w.
Latest(s, w) == \E i \in DOMAIN s : s[i].what = w /\ \A j \in DOMAIN s : i < j => s[j].what \notin Notices

\* The shell's continue and steps look at what they read.
Looking == op.cmd.cmd \in {"continue", "step"}

\* Something was read, or will be, that its reader does not look for.
Lost ==
    \/ missed
    \/ ~Looking /\ (Says(out, "refused") \/ Says(op.text, "refused"))
    \/ op.cmd.cmd \in {"break", "evaluate"} /\ ~Silent(op.text)
    \/ Looking /\ ~op.clean

\* GDB: the last notice on its way, or else what is shown, is true, or the program is about
\* to be let go.
GdbShown ==
    /\ prog = "running" => Latest(out, "running") \/ (Silent(out) /\ astate # "STOPPED")
    /\ prog = "stopped" =>
          \/ Latest(out, "stopped") \/ (Silent(out) /\ astate = "STOPPED")
          \/ Has(cmds, "run") \/ Has(cmds, "resume") \/ Has(cmds, "exit")

Resumes(q) == Has(q, "continue") \/ Has(q, "step")
ResumesOnce(q) ==
    \E i \in DOMAIN q :
        /\ q[i].cmd \in {"continue", "step"}
        /\ \A j \in DOMAIN q : q[j].cmd \in {"continue", "step"} => j = i
Only(s, w) == \A v \in Notices : Says(s, v) => v = w

\* The shell while a continue or a step reads that was sent with nothing else on its way.
ShellWaits ==
    \/ cmds = <<op.cmd>> /\ prog # "running" /\ Silent(out) /\ Silent(op.text)
    \/ cmds = <<>> /\ prog = "running" /\ Silent(out) /\ Silent(op.text)
    \/ /\ cmds = <<>>
       /\ \E w \in {"stopped", "terminated"} :
             /\ prog = (IF w = "stopped" THEN "stopped" ELSE "ended")
             /\ Only(out, w) /\ Only(op.text, w) /\ (Says(out, w) \/ Says(op.text, w))
    \/ /\ cmds = <<>> /\ prog # "running" /\ Silent(out) /\ Silent(op.text)
       /\ Says(out, "refused") \/ Says(op.text, "refused")

\* The shell at other times: the script runs, or is about to, or has stopped.
ShellRests ==
    \/ prog = "running" /\ ~Resumes(cmds) /\ Silent(out) /\ astate # "STOPPED"
    \/ prog # "running" /\ ResumesOnce(cmds) /\ Silent(out) /\ astate # "STOPPED"
    \/ /\ prog # "running" /\ ~Resumes(cmds)
       /\ prog = "stopped" =>
             Only(out, "stopped")
             /\ (Says(out, "stopped") \/ astate = "STOPPED" \/ Has(cmds, "exit"))

Shown ==
    alive /\ ~Lost =>
        /\ kind = "gdb" => GdbShown
        /\ kind = "shell" /\ Looking => ShellWaits
        /\ kind = "shell" /\ ~Looking /\ op.cmd.cmd # "launch" => ShellRests

IInv == Typed /\ OfKind /\ Early /\ Greeted /\ Numbers /\ Kept /\ Shown

-----------------------------------------------------------------------------
(* Two sequences read one after the other.                                  *)

LEMMA JoinedPlaces ==
    ASSUME NEW S, NEW s \in Seq(S), NEW t \in Seq(S)
    PROVE  /\ s \o t \in Seq(S) /\ DOMAIN (s \o t) = 1 .. Len(s) + Len(t)
           /\ DOMAIN s = 1 .. Len(s) /\ DOMAIN t = 1 .. Len(t) /\ Len(s) \in Nat /\ Len(t) \in Nat
           /\ \A i \in DOMAIN s : i \in DOMAIN (s \o t) /\ (s \o t)[i] = s[i]
           /\ \A i \in DOMAIN t : Len(s) + i \in DOMAIN (s \o t) /\ (s \o t)[Len(s) + i] = t[i]
           /\ \A k \in DOMAIN (s \o t) :
                 k \in DOMAIN s \/ \E i \in DOMAIN t : k = Len(s) + i
<1>1. /\ s \o t \in Seq(S) /\ DOMAIN (s \o t) = 1 .. Len(s) + Len(t)
      /\ DOMAIN s = 1 .. Len(s) /\ DOMAIN t = 1 .. Len(t) /\ Len(s) \in Nat /\ Len(t) \in Nat
      /\ \A i \in 1 .. Len(s) : (s \o t)[i] = s[i]
      /\ \A i \in 1 .. Len(t) : (s \o t)[Len(s) + i] = t[i]
      OBVIOUS
<1>2. \A k \in 1 .. Len(s) + Len(t) : k \notin 1 .. Len(s) => k - Len(s) \in 1 .. Len(t) /\ k = Len(s) + (k - Len(s))
      BY <1>1
<1>3. /\ \A i \in 1 .. Len(s) : i \in 1 .. Len(s) + Len(t)
      /\ \A i \in 1 .. Len(t) : Len(s) + i \in 1 .. Len(s) + Len(t)
      BY <1>1
<1> QED
    BY <1>1, <1>2, <1>3

LEMMA SaysJoined ==
    ASSUME NEW s \in Seq(Outputs), NEW t \in Seq(Outputs), NEW w
    PROVE  Says(s \o t, w) <=> Says(s, w) \/ Says(t, w)
<1> DEFINE u == s \o t
<1>1. /\ \A i \in DOMAIN s : i \in DOMAIN u /\ u[i] = s[i]
      /\ \A i \in DOMAIN t : Len(s) + i \in DOMAIN u /\ u[Len(s) + i] = t[i]
      /\ \A k \in DOMAIN u : k \in DOMAIN s \/ \E i \in DOMAIN t : k = Len(s) + i
      BY JoinedPlaces
<1> HIDE DEF u
<1>2. ASSUME Says(u, w) PROVE Says(s, w) \/ Says(t, w)
  <2>1. PICK k \in DOMAIN u : u[k].what = w
        BY <1>2 DEF Says
  <2> QED
      BY <1>1, <2>1 DEF Says
<1>3. Says(s, w) => Says(u, w)
      BY <1>1 DEF Says
<1>4. Says(t, w) => Says(u, w)
      BY <1>1 DEF Says
<1> QED
    BY <1>2, <1>3, <1>4 DEF u

LEMMA MentionsJoined ==
    ASSUME NEW s \in Seq(Outputs), NEW t \in Seq(Outputs), NEW n
    PROVE  Mentions(s \o t, n) <=> Mentions(s, n) /\ Mentions(t, n)
<1> DEFINE u == s \o t
<1>1. /\ \A i \in DOMAIN s : i \in DOMAIN u /\ u[i] = s[i]
      /\ \A i \in DOMAIN t : Len(s) + i \in DOMAIN u /\ u[Len(s) + i] = t[i]
      /\ \A k \in DOMAIN u : k \in DOMAIN s \/ \E i \in DOMAIN t : k = Len(s) + i
      BY JoinedPlaces
<1> HIDE DEF u
<1>2. ASSUME Mentions(s, n), Mentions(t, n) PROVE Mentions(u, n)
  <2>1. ASSUME NEW k \in DOMAIN u, u[k].what = "bkpt" PROVE u[k].num = n
        BY <1>1, <1>2, <2>1 DEF Mentions
  <2> QED
      BY <2>1 DEF Mentions
<1>3. Mentions(u, n) => Mentions(s, n)
      BY <1>1 DEF Mentions
<1>4. Mentions(u, n) => Mentions(t, n)
      BY <1>1 DEF Mentions
<1> QED
    BY <1>2, <1>3, <1>4 DEF u

LEMMA UnsaidMentions == \A s, n : ~Says(s, "bkpt") => Mentions(s, n)
BY DEF Says, Mentions

LEMMA LatestJoined ==
    ASSUME NEW s \in Seq(Outputs), NEW t \in Seq(Outputs), NEW w \in Notices
    PROVE  Latest(s \o t, w) <=> Latest(t, w) \/ (Silent(t) /\ Latest(s, w))
<1> DEFINE u == s \o t
           n == Len(s)
<1>1. /\ DOMAIN u = 1 .. n + Len(t)
      /\ DOMAIN s = 1 .. n /\ DOMAIN t = 1 .. Len(t) /\ n \in Nat /\ Len(t) \in Nat
      /\ \A i \in DOMAIN s : i \in DOMAIN u /\ u[i] = s[i]
      /\ \A i \in DOMAIN t : n + i \in DOMAIN u /\ u[n + i] = t[i]
      /\ \A k \in DOMAIN u : k \in DOMAIN s \/ \E i \in DOMAIN t : k = n + i
      BY JoinedPlaces
<1> HIDE DEF u, n
<1>2. ASSUME Latest(t, w) PROVE Latest(u, w)
  <2>1. PICK i \in DOMAIN t : t[i].what = w /\ \A j \in DOMAIN t : i < j => t[j].what \notin Notices
        BY <1>2 DEF Latest
  <2>2. ASSUME NEW k \in DOMAIN u, n + i < k PROVE u[k].what \notin Notices
    <3>1. k \notin DOMAIN s
          BY <1>1, <2>1, <2>2
    <3>2. PICK j \in DOMAIN t : k = n + j
          BY <1>1, <2>2, <3>1
    <3>3. i < j
          BY <1>1, <2>1, <2>2, <3>2
    <3> QED
        BY <1>1, <2>1, <3>2, <3>3
  <2> QED
      BY <1>1, <2>1, <2>2 DEF Latest
<1>3. ASSUME Silent(t), Latest(s, w) PROVE Latest(u, w)
  <2>1. PICK i \in DOMAIN s : s[i].what = w /\ \A j \in DOMAIN s : i < j => s[j].what \notin Notices
        BY <1>3 DEF Latest
  <2>2. \A j \in DOMAIN t : t[j].what \notin Notices
        BY <1>3 DEF Silent, Says
  <2>3. ASSUME NEW k \in DOMAIN u, i < k PROVE u[k].what \notin Notices
        BY <1>1, <2>1, <2>2, <2>3
  <2> QED
      BY <1>1, <2>1, <2>3 DEF Latest
<1>4. ASSUME Latest(u, w), ~Latest(t, w) PROVE Silent(t) /\ Latest(s, w)
  <2>1. PICK k \in DOMAIN u : u[k].what = w /\ \A j \in DOMAIN u : k < j => u[j].what \notin Notices
        BY <1>4 DEF Latest
  <2>2. k \in DOMAIN s
    <3>1. SUFFICES ASSUME NEW i \in DOMAIN t, k = n + i PROVE FALSE
          BY <1>1
    <3>2. t[i].what = w
          BY <1>1, <2>1, <3>1
    <3>3. \A j \in DOMAIN t : i < j => t[j].what \notin Notices
      <4> TAKE j \in DOMAIN t
      <4> HAVE i < j
      <4>1. k < n + j /\ n + j \in DOMAIN u /\ u[n + j] = t[j]
            BY <1>1, <3>1
      <4> QED
          BY <4>1, <2>1
    <3> QED
        BY <3>2, <3>3, <1>4 DEF Latest
  <2>3. \A j \in DOMAIN t : t[j].what \notin Notices
    <3> TAKE j \in DOMAIN t
    <3>1. k < n + j /\ n + j \in DOMAIN u /\ u[n + j] = t[j]
          BY <1>1, <2>2
    <3> QED
        BY <3>1, <2>1
  <2>4. \A j \in DOMAIN s : k < j => s[j].what \notin Notices
        BY <1>1, <2>1
  <2> QED
      BY <1>1, <2>1, <2>2, <2>3, <2>4 DEF Latest, Silent, Says
<1> QED
    BY <1>2, <1>3, <1>4 DEF u

LEMMA LatestSays ==
    ASSUME NEW s, NEW w \in Notices
    PROVE  /\ Latest(s, w) => Says(s, w)
           /\ Silent(s) => ~Latest(s, w) /\ Only(s, w)
BY DEF Latest, Says, Silent, Only

LEMMA NothingSaid == Silent(<<>>) /\ \A v : ~Says(<<>>, v) /\ Only(<<>>, v)
BY DEF Says, Silent, Only

-----------------------------------------------------------------------------
(* Outputs and commands of which only the kind matters.                     *)

LEMMA OneOutput ==
    ASSUME NEW w \in Notices \cup {"prompt", "bkpt", "done", "refused"}, NEW n \in Nat
    PROVE  /\ Item(w, n) \in Outputs /\ Item(w, n).what = w /\ Item(w, n).num = n
           /\ <<Item(w, n)>> \in Seq(Outputs) /\ Text(w) \in Seq(Outputs)
           /\ \A v : Says(<<Item(w, n)>>, v) <=> v = w
           /\ \A v : Says(Text(w), v) <=> v = w
           /\ w \in Notices => Latest(Text(w), w)
BY DEF Item, Outputs, Text, Says, Latest

LEMMA CommandsTyped ==
    /\ \A c \in {"none", "evaluate", "continue", "step", "launch", "run", "resume", "set",
                 "interrupt", "exit", "empty"} : Plain(c) \in Commands /\ Plain(c).cmd = c
    /\ \A c \in {"break", "delete"}, n \in Nat, p \in Where :
          Cmd(c, n, p) \in Commands /\ Cmd(c, n, p).cmd = c /\ Cmd(c, n, p).num = n
          /\ Cmd(c, n, p).place = p
BY DEF Plain, Cmd, Commands, Where

LEMMA HasJoined ==
    ASSUME NEW q \in Seq(Commands), NEW r \in Seq(Commands)
    PROVE  /\ q \o r \in Seq(Commands)
           /\ \A c : Has(q \o r, c) <=> Has(q, c) \/ Has(r, c)
           /\ \A n : Deletes(q \o r, n) <=> Deletes(q, n) \/ Deletes(r, n)
<1> DEFINE u == q \o r
<1>1. /\ u \in Seq(Commands)
      /\ \A i \in DOMAIN q : i \in DOMAIN u /\ u[i] = q[i]
      /\ \A i \in DOMAIN r : Len(q) + i \in DOMAIN u /\ u[Len(q) + i] = r[i]
      /\ \A k \in DOMAIN u : k \in DOMAIN q \/ \E i \in DOMAIN r : k = Len(q) + i
      BY JoinedPlaces
<1> HIDE DEF u
<1>2. ASSUME NEW c PROVE Has(u, c) <=> Has(q, c) \/ Has(r, c)
  <2>1. ASSUME Has(u, c) PROVE Has(q, c) \/ Has(r, c)
    <3>1. PICK k \in DOMAIN u : u[k].cmd = c
          BY <2>1 DEF Has
    <3> QED
        BY <1>1, <3>1 DEF Has
  <2>2. (Has(q, c) => Has(u, c)) /\ (Has(r, c) => Has(u, c))
        BY <1>1 DEF Has
  <2> QED
      BY <2>1, <2>2
<1>3. ASSUME NEW n PROVE Deletes(u, n) <=> Deletes(q, n) \/ Deletes(r, n)
  <2>1. ASSUME Deletes(u, n) PROVE Deletes(q, n) \/ Deletes(r, n)
    <3>1. PICK k \in DOMAIN u : u[k].cmd = "delete" /\ u[k].num = n
          BY <2>1 DEF Deletes
    <3> QED
        BY <1>1, <3>1 DEF Deletes
  <2>2. (Deletes(q, n) => Deletes(u, n)) /\ (Deletes(r, n) => Deletes(u, n))
        BY <1>1 DEF Deletes
  <2> QED
      BY <2>1, <2>2
<1> QED
    BY <1>1, <1>2, <1>3 DEF u

LEMMA HasOne ==
    ASSUME NEW c \in Commands
    PROVE  /\ <<c>> \in Seq(Commands)
           /\ \A d : Has(<<c>>, d) <=> d = c.cmd
           /\ \A n : Deletes(<<c>>, n) <=> c.cmd = "delete" /\ c.num = n
           /\ \A d : ~Has(<<>>, d)
           /\ \A n : ~Deletes(<<>>, n)
BY DEF Has, Deletes

\* The debugger reads the first command.
LEMMA HasRead ==
    ASSUME NEW q \in Seq(Commands), q # <<>>
    PROVE  /\ Head(q) \in Commands /\ Tail(q) \in Seq(Commands) /\ q = <<Head(q)>> \o Tail(q)
           /\ \A c : Has(q, c) <=> c = Head(q).cmd \/ Has(Tail(q), c)
           /\ \A n : Deletes(q, n) <=> (Head(q).cmd = "delete" /\ Head(q).num = n)
                                       \/ Deletes(Tail(q), n)
<1>1. Head(q) \in Commands /\ Tail(q) \in Seq(Commands) /\ q = <<Head(q)>> \o Tail(q)
      OBVIOUS
<1>2. <<Head(q)>> \in Seq(Commands)
      BY <1>1
<1>3. /\ \A c : Has(<<Head(q)>> \o Tail(q), c) <=> c = Head(q).cmd \/ Has(Tail(q), c)
      /\ \A n : Deletes(<<Head(q)>> \o Tail(q), n) <=>
                     (Head(q).cmd = "delete" /\ Head(q).num = n) \/ Deletes(Tail(q), n)
  <2>1. /\ \A c : Has(<<Head(q)>>, c) <=> c = Head(q).cmd
        /\ \A n : Deletes(<<Head(q)>>, n) <=> Head(q).cmd = "delete" /\ Head(q).num = n
        BY <1>1, HasOne
  <2>2. /\ \A c : Has(<<Head(q)>> \o Tail(q), c) <=> Has(<<Head(q)>>, c) \/ Has(Tail(q), c)
        /\ \A n : Deletes(<<Head(q)>> \o Tail(q), n) <=>
                       Deletes(<<Head(q)>>, n) \/ Deletes(Tail(q), n)
        BY ONLY <1>1, <1>2, HasJoined
  <2> QED
      BY <2>1, <2>2, Zenon
<1>4. /\ \A c : Has(q, c) <=> Has(<<Head(q)>> \o Tail(q), c)
      /\ \A n : Deletes(q, n) <=> Deletes(<<Head(q)>> \o Tail(q), n)
      BY ONLY <1>1, Zenon
<1> QED
    BY <1>1, <1>3, <1>4, Zenon

\* How many of the commands on their way let the script run.
LEMMA ResumesJoined ==
    ASSUME NEW q \in Seq(Commands), NEW r \in Seq(Commands), ~Resumes(r)
    PROVE  /\ Resumes(q \o r) <=> Resumes(q)
           /\ ResumesOnce(q) => ResumesOnce(q \o r)
<1>1. Resumes(q \o r) <=> Resumes(q)
      BY HasJoined DEF Resumes
<1> DEFINE u == q \o r
<1>2. /\ DOMAIN q = 1 .. Len(q)
      /\ \A i \in DOMAIN q : i \in DOMAIN u /\ u[i] = q[i]
      /\ \A i \in DOMAIN r : Len(q) + i \in DOMAIN u /\ u[Len(q) + i] = r[i]
      /\ \A k \in DOMAIN u : k \in DOMAIN q \/ \E i \in DOMAIN r : k = Len(q) + i
      BY JoinedPlaces
<1> HIDE DEF u
<1>3. \A i \in DOMAIN r : r[i].cmd \notin {"continue", "step"}
      BY DEF Resumes, Has
<1>4. ASSUME ResumesOnce(q) PROVE ResumesOnce(u)
  <2>1. PICK i \in DOMAIN q : /\ q[i].cmd \in {"continue", "step"}
                              /\ \A j \in DOMAIN q : q[j].cmd \in {"continue", "step"} => j = i
        BY <1>4 DEF ResumesOnce
  <2>2. ASSUME NEW k \in DOMAIN u, u[k].cmd \in {"continue", "step"} PROVE k = i
        BY <1>2, <1>3, <2>1, <2>2
  <2> QED
      BY <1>2, <2>1, <2>2 DEF ResumesOnce
<1> QED
    BY <1>1, <1>4 DEF u

LEMMA ResumesRead ==
    ASSUME NEW h \in Commands, NEW r \in Seq(Commands), ResumesOnce(<<h>> \o r)
    PROVE  /\ h.cmd \in {"continue", "step"} => ~Resumes(r)
           /\ h.cmd \notin {"continue", "step"} => ResumesOnce(r)
<1> DEFINE u == <<h>> \o r
<1>1. /\ Len(<<h>>) = 1 /\ 1 \in DOMAIN u /\ u[1] = h /\ DOMAIN r \subseteq 1 .. Len(r)
      /\ Len(r) \in Nat
      /\ \A i \in DOMAIN r : 1 + i \in DOMAIN u /\ u[1 + i] = r[i]
      /\ \A k \in DOMAIN u : k = 1 \/ \E i \in DOMAIN r : k = 1 + i
  <2>1. <<h>> \in Seq(Commands) /\ Len(<<h>>) = 1 /\ DOMAIN <<h>> = {1} /\ <<h>>[1] = h
        OBVIOUS
  <2> DEFINE b == <<h>>
  <2>2. /\ DOMAIN r = 1 .. Len(r) /\ Len(r) \in Nat
        /\ \A i \in DOMAIN b : i \in DOMAIN (b \o r) /\ (b \o r)[i] = b[i]
        /\ \A i \in DOMAIN r : Len(b) + i \in DOMAIN (b \o r) /\ (b \o r)[Len(b) + i] = r[i]
        /\ \A k \in DOMAIN (b \o r) : k \in DOMAIN b \/ \E i \in DOMAIN r : k = Len(b) + i
    <3>1. b \in Seq(Commands)
          BY <2>1
    <3> HIDE DEF b
    <3> QED
        BY <3>1, JoinedPlaces
  <2>3. /\ 1 \in DOMAIN u /\ u[1] = h
        /\ \A i \in DOMAIN r : 1 + i \in DOMAIN u /\ u[1 + i] = r[i]
        /\ \A k \in DOMAIN u : k \in {1} \/ \E i \in DOMAIN r : k = 1 + i
        BY <2>1, <2>2, Zenon
  <2> QED
      BY <2>1, <2>2, <2>3
<1> HIDE DEF u
<1>2. PICK k \in DOMAIN u : /\ u[k].cmd \in {"continue", "step"}
                            /\ \A j \in DOMAIN u : u[j].cmd \in {"continue", "step"} => j = k
      BY DEF ResumesOnce, u
<1>3. ASSUME h.cmd \in {"continue", "step"}, NEW i \in DOMAIN r, r[i].cmd \in {"continue", "step"}
      PROVE  FALSE
  <2>1. k = 1 /\ k = 1 + i /\ i \in 1 .. Len(r)
        BY <1>1, <1>2, <1>3
  <2> QED
      BY <2>1
<1>4. ASSUME h.cmd \notin {"continue", "step"} PROVE ResumesOnce(r)
  <2>1. PICK i \in DOMAIN r : k = 1 + i
        BY <1>1, <1>2, <1>4
  <2>2. ASSUME NEW j \in DOMAIN r, r[j].cmd \in {"continue", "step"} PROVE j = i
    <3>1. 1 + j = 1 + i /\ i \in 1 .. Len(r) /\ j \in 1 .. Len(r)
          BY <1>1, <1>2, <2>1, <2>2
    <3> QED
        BY <3>1
  <2>3. r[i].cmd \in {"continue", "step"}
        BY <1>1, <1>2, <2>1
  <2> QED
      BY <2>2, <2>3 DEF ResumesOnce
<1> QED
    BY <1>3, <1>4 DEF Resumes, Has

LEMMA ResumesOne ==
    ASSUME NEW c \in Commands
    PROVE  /\ c.cmd \in {"continue", "step"} => ResumesOnce(<<c>>)
           /\ c.cmd \notin {"continue", "step"} => ~Resumes(<<c>>)
           /\ ~Resumes(<<>>) /\ ~ResumesOnce(<<>>)
BY DEF ResumesOnce, Resumes, Has

\* Some of what is in the pipe is read.
LEMMA ReadCut ==
    ASSUME NEW S, NEW s \in Seq(S), NEW n \in 0 .. Len(s)
    PROVE  /\ SubSeq(s, 1, n) \in Seq(S) /\ SubSeq(s, n + 1, Len(s)) \in Seq(S)
           /\ s = SubSeq(s, 1, n) \o SubSeq(s, n + 1, Len(s))
<1> DEFINE front == SubSeq(s, 1, n)
           back == SubSeq(s, n + 1, Len(s))
<1>1. Len(s) \in Nat /\ \A i \in 1 .. Len(s) : s[i] \in S
      BY LenProperties, ElementOfSeq
<1>2. front \in Seq(S) /\ Len(front) = n /\ \A i \in 1 .. n : front[i] = s[i]
      BY <1>1, SubSeqProperties
<1>3. /\ back \in Seq(S) /\ Len(back) = Len(s) - n
      /\ \A i \in 1 .. (Len(s) - n) : back[i] = s[n + i]
      BY <1>1, SubSeqProperties
<1> HIDE DEF front, back
<1>4. /\ front \o back \in Seq(S) /\ Len(front \o back) = n + (Len(s) - n)
      /\ \A i \in DOMAIN front : (front \o back)[i] = front[i]
      /\ \A i \in DOMAIN back : (front \o back)[n + i] = back[i]
      /\ DOMAIN front = 1 .. n /\ DOMAIN back = 1 .. (Len(s) - n)
      BY <1>2, <1>3, JoinedPlaces
<1>5. \A i \in 1 .. Len(s) : (front \o back)[i] = s[i]
  <2> TAKE i \in 1 .. Len(s)
  <2>1. CASE i <= n
        BY <2>1, <1>1, <1>2, <1>4
  <2>2. CASE ~ i <= n
    <3>1. i - n \in 1 .. (Len(s) - n) /\ n + (i - n) = i
          BY <2>2, <1>1
    <3> QED
        BY <3>1, <1>3, <1>4
  <2> QED
      BY <2>1, <2>2, <1>1
<1>6. front \o back = s
  <2>1. Len(front \o back) = Len(s)
        BY <1>1, <1>4
  <2> QED
      BY <1>4, <1>5, <2>1, SeqEqual
<1> QED
    BY <1>2, <1>3, <1>6 DEF front, back

-----------------------------------------------------------------------------
(* Commands that are sent and whose answer nobody reads.                    *)

LEMMA IdleOp == Idle => op = NoOp /\ op.cmd.cmd = "none" /\ op.text = <<>>
BY CommandsTyped DEF Idle, NoOp

\* They may let the program go, and say so, but say nothing of a stop.
LEMMA Sending ==
    ASSUME IInv, Idle, NEW seq \in Seq(Commands), Send(seq),
           UNCHANGED <<kind, listed, counter, op, alive, bps, made, prog, sound, missed>>,
           \A c \in {"break", "delete", "continue", "step"} : ~Has(seq, c),
           \A n : ~Deletes(seq, n),
           kind = "shell" => ~Has(seq, "run") /\ ~Has(seq, "resume"),
           \/ astate' = astate
           \/ /\ astate' \in States \ {"NONE", "STOPPED"}
              /\ Has(seq, "run") \/ Has(seq, "resume") \/ Has(seq, "exit")
    PROVE  IInv'
<1>1. op = NoOp /\ op.cmd.cmd = "none" /\ op.text = <<>>
      BY IdleOp
<1>2. /\ out' = out
      /\ alive => cmds' = cmds \o seq
      /\ ~alive => cmds' = cmds
      BY DEF Send
<1>3. cmds' \in Seq(Commands)
      BY <1>2, HasJoined DEF IInv, Typed
<1>4. /\ \A c : Has(cmds \o seq, c) <=> Has(cmds, c) \/ Has(seq, c)
      /\ \A n : Deletes(cmds \o seq, n) <=> Deletes(cmds, n)
  <2>1. cmds \in Seq(Commands)
        BY DEF IInv, Typed
  <2> QED
      BY <2>1, HasJoined
<1>5. \A c : Has(cmds', c) => Has(cmds, c) \/ Has(seq, c)
      BY <1>2, <1>4, Zenon
<1>6. alive => /\ \A c : Has(cmds, c) \/ Has(seq, c) => Has(cmds', c)
               /\ \A n : Deletes(cmds', n) <=> Deletes(cmds, n)
      BY <1>2, <1>4, Zenon
<1>7. Typed' /\ Early'
      BY <1>2, <1>3 DEF IInv, Typed, Early
<1>8. OfKind'
      BY <1>2, <1>5 DEF IInv, OfKind, NoOp, Plain, Cmd
<1>9. Greeted' /\ Numbers'
      BY <1>1 DEF IInv, Greeted, Numbers
<1>10. Kept'
      BY <1>1, <1>5, <1>6 DEF IInv, Kept, Matched
<1>11. ASSUME alive, ~Lost PROVE (kind = "gdb" => GdbShown') /\ (kind = "shell" => ShellRests')
  <2>1. kind = "gdb" => GdbShown'
        BY <1>2, <1>6, <1>11 DEF IInv, Shown, GdbShown, Looking
  <2>2. ASSUME kind = "shell" PROVE ShellRests'
    <3>1. ShellRests
          BY <1>1, <1>11, <2>2 DEF IInv, Shown, Looking
    <3>2. ~Resumes(seq)
          BY DEF Resumes
    <3>3. (Resumes(cmds') <=> Resumes(cmds)) /\ (ResumesOnce(cmds) => ResumesOnce(cmds'))
      <4>1. cmds \in Seq(Commands)
            BY DEF IInv, Typed
      <4>2. /\ Resumes(cmds \o seq) <=> Resumes(cmds)
            /\ ResumesOnce(cmds) => ResumesOnce(cmds \o seq)
            BY <3>2, <4>1, ResumesJoined
      <4> QED
          BY <1>2, <1>11, <4>2, Zenon
    <3> QED
        BY <1>2, <1>6, <1>11, <2>2, <3>1, <3>3 DEF ShellRests
  <2> QED
      BY <2>1, <2>2
<1>12. Shown'
  <2>1. Lost' <=> Lost
        BY <1>2 DEF Lost, Looking
  <2> QED
      BY <1>1, <1>11, <2>1 DEF Shown, Looking
<1> QED
    BY <1>7, <1>8, <1>9, <1>10, <1>12 DEF IInv

LEMMA HasTwo ==
    ASSUME NEW a \in Commands, NEW b \in Commands
    PROVE  /\ <<a, b>> \in Seq(Commands)
           /\ \A d : Has(<<a, b>>, d) <=> d = a.cmd \/ d = b.cmd
           /\ \A n : Deletes(<<a, b>>, n) => a.cmd = "delete" \/ b.cmd = "delete"
<1>1. DOMAIN <<a, b>> = {1, 2} /\ <<a, b>>[1] = a /\ <<a, b>>[2] = b
      OBVIOUS
<1> QED
    BY <1>1 DEF Has, Deletes

LEMMA HasThree ==
    ASSUME NEW a \in Commands, NEW b \in Commands, NEW c \in Commands
    PROVE  /\ <<a, b, c>> \in Seq(Commands)
           /\ \A d : Has(<<a, b, c>>, d) <=> d = a.cmd \/ d = b.cmd \/ d = c.cmd
           /\ \A n : Deletes(<<a, b, c>>, n) =>
                        a.cmd = "delete" \/ b.cmd = "delete" \/ c.cmd = "delete"
<1>1. /\ DOMAIN <<a, b, c>> = {1, 2, 3}
      /\ <<a, b, c>>[1] = a /\ <<a, b, c>>[2] = b /\ <<a, b, c>>[3] = c
      OBVIOUS
<1> QED
    BY <1>1 DEF Has, Deletes

LEMMA GdbLaunchKeeps == IInv /\ GdbLaunch => IInv'
<1> SUFFICES ASSUME IInv, GdbLaunch PROVE IInv'
    OBVIOUS
<1> DEFINE seq == <<Plain("set"), Plain("run")>>
<1>1. /\ seq \in Seq(Commands)
      /\ \A c : Has(seq, c) <=> c = "set" \/ c = "run"
      /\ \A n : ~Deletes(seq, n)
      BY CommandsTyped, HasTwo
<1>2. /\ Idle /\ kind = "gdb" /\ Send(seq)
      /\ UNCHANGED <<kind, listed, counter, op, alive, bps, made, prog, sound, missed>>
      /\ astate' \in {"RUNNING", "LAUNCHING"}
      BY DEF GdbLaunch, debuggerVars, historyVars
<1> HIDE DEF seq
<1> QED
    BY <1>1, <1>2, Sending DEF States

LEMMA GdbResumesKeep == IInv /\ (GdbContinue \/ GdbStep) => IInv'
<1> SUFFICES ASSUME IInv, GdbContinue \/ GdbStep PROVE IInv'
    OBVIOUS
<1> DEFINE seq == <<Plain("resume")>>
<1>1. /\ seq \in Seq(Commands)
      /\ \A c : Has(seq, c) <=> c = "resume"
      /\ \A n : ~Deletes(seq, n)
      BY CommandsTyped, HasOne
<1>2. /\ Idle /\ kind = "gdb" /\ Send(seq)
      /\ UNCHANGED <<kind, listed, counter, op, alive, bps, made, prog, sound, missed>>
      /\ astate' = "RUNNING" \/ astate' = astate
      BY DEF GdbContinue, GdbStep, debuggerVars, historyVars
<1> HIDE DEF seq
<1> QED
    BY <1>1, <1>2, Sending DEF States

LEMMA GdbPauseKeeps == IInv /\ GdbPause => IInv'
<1> SUFFICES ASSUME IInv, GdbPause PROVE IInv'
    OBVIOUS
<1> DEFINE seq == <<Plain("interrupt")>>
<1>1. /\ seq \in Seq(Commands)
      /\ \A c : Has(seq, c) <=> c = "interrupt"
      /\ \A n : ~Deletes(seq, n)
      BY CommandsTyped, HasOne
<1>2. /\ Idle /\ kind = "gdb" /\ Send(seq)
      /\ UNCHANGED <<kind, listed, counter, op, alive, bps, made, prog, sound, missed>>
      /\ astate' = astate
      BY DEF GdbPause, modelVars, debuggerVars, historyVars
<1> HIDE DEF seq
<1> QED
    BY <1>1, <1>2, Sending

LEMMA DisconnectKeeps == IInv /\ Disconnect => IInv'
<1> SUFFICES ASSUME IInv, Disconnect PROVE IInv'
    OBVIOUS
<1>1. /\ Idle /\ astate' = "TERMINATED"
      /\ UNCHANGED <<kind, listed, counter, op, alive, bps, made, prog, sound, missed>>
      BY DEF Disconnect, debuggerVars, historyVars
<1>2. PICK seq : Send(seq) /\ seq \in {<<Plain("interrupt"), Plain("set"), Plain("exit")>>, <<Plain("exit")>>}
      BY DEF Disconnect
<1>3. /\ seq \in Seq(Commands)
      /\ \A c : Has(seq, c) => c \in {"interrupt", "set", "exit"}
      /\ Has(seq, "exit")
      /\ \A n : ~Deletes(seq, n)
  <2>1. CASE seq = <<Plain("exit")>>
    <3>1. Plain("exit") \in Commands /\ Plain("exit").cmd = "exit"
          BY CommandsTyped
    <3>2. /\ <<Plain("exit")>> \in Seq(Commands)
          /\ \A c : Has(<<Plain("exit")>>, c) <=> c = "exit"
          /\ \A n : ~Deletes(<<Plain("exit")>>, n)
          BY <3>1, HasOne
    <3> QED
        BY <3>2, <2>1
  <2>2. CASE seq = <<Plain("interrupt"), Plain("set"), Plain("exit")>>
    <3> DEFINE a == Plain("interrupt")
               b == Plain("set")
               e == Plain("exit")
    <3>1. /\ a \in Commands /\ b \in Commands /\ e \in Commands
          /\ a.cmd = "interrupt" /\ b.cmd = "set" /\ e.cmd = "exit"
          BY CommandsTyped
    <3> HIDE DEF a, b, e
    <3>2. /\ <<a, b, e>> \in Seq(Commands)
          /\ \A c : Has(<<a, b, e>>, c) <=> c = "interrupt" \/ c = "set" \/ c = "exit"
          /\ \A n : ~Deletes(<<a, b, e>>, n)
          BY <3>1, HasThree
    <3>3. seq = <<a, b, e>>
          BY <2>2 DEF a, b, e
    <3> QED
        BY <3>2, <3>3
  <2> QED
      BY <1>2, <2>1, <2>2
<1> QED
    BY <1>1, <1>2, <1>3, Sending DEF States

-----------------------------------------------------------------------------
(* Commands whose answer is read.                                           *)

LEMMA Asked ==
    ASSUME IInv, NEW c \in Commands, Query(c)
    PROVE  /\ op.cmd.cmd = "none" /\ op.text = <<>> /\ alive
           /\ UNCHANGED <<kind, astate, listed, counter, alive, bps, made, prog, sound, missed, out>>
           /\ cmds' = cmds \o <<c>> /\ cmds' \in Seq(Commands)
           /\ \A d : Has(cmds', d) <=> Has(cmds, d) \/ d = c.cmd
           /\ \A n : Deletes(cmds', n) <=> Deletes(cmds, n) \/ (c.cmd = "delete" /\ c.num = n)
           /\ op' \in Ops /\ op'.cmd = c /\ op'.text = <<>> /\ (op'.clean <=> Undisturbed)
<1>1. /\ Idle /\ alive /\ Send(<<c>>)
      /\ op' = [cmd |-> c, text |-> <<>>, left |-> Attempts, clean |-> Undisturbed]
      /\ UNCHANGED <<kind, astate, listed, counter, alive, bps, made, prog, sound, missed>>
      BY DEF Query, Begin, modelVars, debuggerVars, historyVars
<1>2. cmds' = cmds \o <<c>> /\ out' = out
      BY <1>1 DEF Send
<1>3. /\ <<c>> \in Seq(Commands) /\ cmds \in Seq(Commands)
      /\ \A d : Has(<<c>>, d) <=> d = c.cmd
      /\ \A n : Deletes(<<c>>, n) <=> c.cmd = "delete" /\ c.num = n
      BY HasOne DEF IInv, Typed
<1>4. /\ cmds \o <<c>> \in Seq(Commands)
      /\ \A d : Has(cmds \o <<c>>, d) <=> Has(cmds, d) \/ Has(<<c>>, d)
      /\ \A n : Deletes(cmds \o <<c>>, n) <=> Deletes(cmds, n) \/ Deletes(<<c>>, n)
      BY <1>3, HasJoined
<1>5. op'.clean <=> Undisturbed
      BY <1>1, Zenon
<1>6. op' \in Ops /\ op'.cmd = c /\ op'.text = <<>>
  <2>1. Undisturbed \in BOOLEAN
        BY DEF Undisturbed
  <2>2. Attempts \in Int /\ <<>> \in Seq(Outputs)
        BY TextAssumption
  <2> QED
      BY <1>1, <2>1, <2>2, Zenon DEF Ops
<1>7. /\ \A d : Has(cmds', d) <=> Has(cmds, d) \/ d = c.cmd
      /\ \A n : Deletes(cmds', n) <=> Deletes(cmds, n) \/ (c.cmd = "delete" /\ c.num = n)
      BY <1>2, <1>3, <1>4, Zenon
<1> QED
    BY <1>1, <1>2, <1>4, <1>5, <1>6, <1>7, IdleOp

\* What all of them leave as it must be.
LEMMA AskedBase ==
    ASSUME IInv, NEW c \in Commands, Query(c),
           c.cmd \in {"break", "evaluate"} \/ (kind = "shell" /\ c.cmd \in {"continue", "step"})
    PROVE  Typed' /\ OfKind' /\ Early' /\ Greeted' /\ Numbers'
<1>1. Typed'
      BY Asked DEF IInv, Typed
<1>2. OfKind'
      BY Asked DEF IInv, OfKind
<1>3. Greeted' /\ Numbers'
      BY Asked DEF IInv, Greeted, Numbers
<1>4. Early'
  <2>1. alive /\ astate = "NONE" => FALSE
        BY Asked DEF IInv, Early
  <2> QED
      BY <2>1, Asked DEF Early
<1> QED
    BY <1>1, <1>2, <1>3, <1>4

\* Anything but a break leaves the breakpoints as they are.
LEMMA AskedKept ==
    ASSUME IInv, NEW c \in Commands, Query(c), c.cmd \in {"evaluate", "continue", "step"}
    PROVE  Kept'
BY Asked DEF IInv, Kept, Matched

LEMMA SetBreakpointKept ==
    ASSUME IInv, NEW p \in Places, SetBreakpoint(p)
    PROVE  Kept'
<1> DEFINE c == Cmd("break", 0, p)
<1>1. c \in Commands /\ c.cmd = "break" /\ Query(c)
      BY CommandsTyped DEF SetBreakpoint, Where
<1> HIDE DEF c
<1>2. /\ op.cmd.cmd = "none" /\ alive /\ op'.cmd = c /\ op'.text = <<>>
      /\ UNCHANGED <<listed, bps, sound, out>> /\ cmds' = cmds \o <<c>>
      /\ op'.clean => cmds = <<>> /\ out = <<>>
      BY <1>1, Asked DEF Undisturbed
<1>3. ASSUME alive, sound, op'.clean PROVE Setting'
  <2>1. cmds = <<>> /\ out' = <<>> /\ Matched
        BY <1>2, <1>3 DEF IInv, Kept
  <2>2. cmds' = <<op'.cmd>>
        BY <1>1, <1>2, <2>1
  <2>3. ToSet(listed) = bps
        BY <2>1 DEF Matched, Deletes
  <2>4. Unspoken'
        BY <1>2, <2>1, NothingSaid DEF Unspoken
  <2> QED
      BY <1>2, <2>2, <2>3, <2>4 DEF Setting
<1>4. alive /\ sound => NumbersOf(listed)
      BY DEF IInv, Kept
<1> QED
    BY <1>1, <1>2, <1>3, <1>4 DEF Kept

LEMMA AskedShown ==
    ASSUME IInv, NEW c \in Commands, Query(c), c.cmd \in {"break", "evaluate"}
    PROVE  Shown'
<1>1. Lost' <=> Lost
      BY Asked, NothingSaid DEF Lost, Looking
<1>2. (GdbShown => GdbShown')
      BY Asked DEF GdbShown
<1>3. ASSUME ShellRests PROVE ShellRests'
  <2>1. cmds \in Seq(Commands) /\ <<c>> \in Seq(Commands) /\ ~Resumes(<<c>>)
        BY ResumesOne DEF IInv, Typed
  <2>2. /\ Resumes(cmds \o <<c>>) <=> Resumes(cmds)
        /\ ResumesOnce(cmds) => ResumesOnce(cmds \o <<c>>)
        BY <2>1, ResumesJoined
  <2>3. /\ Resumes(cmds') <=> Resumes(cmds)
        /\ ResumesOnce(cmds) => ResumesOnce(cmds')
        BY <2>2, Asked, Zenon
  <2> QED
      BY <1>3, <2>3, Asked DEF ShellRests
<1> QED
    BY <1>1, <1>2, <1>3, Asked DEF IInv, Shown, Looking

LEMMA ResumeAskedShown ==
    ASSUME IInv, NEW c \in Commands, Query(c), kind = "shell", c.cmd \in {"continue", "step"}
    PROVE  Shown'
<1>1. SUFFICES ASSUME ~Lost' PROVE ShellWaits'
      BY Asked DEF Shown, Looking
<1>2. Undisturbed
      BY <1>1, Asked DEF Lost, Looking
<1>3. cmds = <<>> /\ out = <<>> /\ prog # "running"
      BY <1>2 DEF Undisturbed
<1>4. cmds' = <<op'.cmd>> /\ out' = <<>> /\ op'.text = <<>> /\ prog' # "running"
      BY <1>3, Asked
<1> QED
    BY <1>4, NothingSaid DEF ShellWaits

LEMMA AskingKeeps ==
    IInv /\ ((\E p \in Places : SetBreakpoint(p)) \/ Evaluate \/ ShellContinue \/ ShellStep) => IInv'
<1> SUFFICES ASSUME IInv, (\E p \in Places : SetBreakpoint(p)) \/ Evaluate \/ ShellContinue \/ ShellStep
             PROVE  IInv'
    OBVIOUS
<1>1. ASSUME NEW p \in Places, SetBreakpoint(p) PROVE IInv'
  <2>1. /\ Query(Cmd("break", 0, p)) /\ Cmd("break", 0, p) \in Commands
        /\ Cmd("break", 0, p).cmd = "break"
        BY <1>1, CommandsTyped DEF SetBreakpoint, Where
  <2> QED
      BY <2>1, <1>1, SetBreakpointKept, AskedBase, AskedShown DEF IInv
<1>2. ASSUME Evaluate PROVE IInv'
  <2>1. Query(Plain("evaluate")) /\ Plain("evaluate") \in Commands /\ Plain("evaluate").cmd = "evaluate"
        BY <1>2, CommandsTyped DEF Evaluate
  <2> QED
      BY <2>1, AskedKept, AskedBase, AskedShown DEF IInv
<1>3. ASSUME ShellContinue PROVE IInv'
  <2>1. /\ Query(Plain("continue")) /\ Plain("continue") \in Commands
        /\ Plain("continue").cmd = "continue" /\ kind = "shell"
        BY <1>3, CommandsTyped DEF ShellContinue
  <2> QED
      BY <2>1, AskedKept, AskedBase, ResumeAskedShown DEF IInv
<1>4. ASSUME ShellStep PROVE IInv'
  <2>1. /\ Query(Plain("step")) /\ Plain("step") \in Commands
        /\ Plain("step").cmd = "step" /\ kind = "shell"
        BY <1>4, CommandsTyped DEF ShellStep
  <2> QED
      BY <2>1, AskedKept, AskedBase, ResumeAskedShown DEF IInv
<1> QED
    BY <1>1, <1>2, <1>3, <1>4

-----------------------------------------------------------------------------
(* The list changes.                                                        *)

LEMMA Removed ==
    ASSUME NEW l \in Seq(Breakpoints), NEW i \in DOMAIN l
    PROVE  /\ RemoveAt(l, i) \in Seq(Breakpoints)
           /\ NumbersOf(l) => /\ NumbersOf(RemoveAt(l, i))
                              /\ ToSet(RemoveAt(l, i)) = {b \in ToSet(l) : b.num # l[i].num}
<1> DEFINE r == RemoveAt(l, i)
<1>1. /\ Len(l) \in Nat /\ i \in 1 .. Len(l) /\ DOMAIN l = 1 .. Len(l)
      /\ \A k \in 1 .. Len(l) : l[k] \in Breakpoints
      OBVIOUS
<1>2. /\ r \in Seq(Breakpoints) /\ DOMAIN r = 1 .. (Len(l) - 1)
      /\ \A k \in 1 .. (Len(l) - 1) : r[k] = IF k < i THEN l[k] ELSE l[k + 1]
  <2> DEFINE front == SubSeq(l, 1, i - 1)
             back == SubSeq(l, i + 1, Len(l))
  <2>1. /\ front \in Seq(Breakpoints) /\ Len(front) = i - 1
        /\ \A k \in 1 .. (i - 1) : front[k] = l[k]
        BY <1>1, SubSeqProperties
  <2>2. /\ back \in Seq(Breakpoints) /\ Len(back) = Len(l) - i
        /\ \A k \in 1 .. (Len(l) - i) : back[k] = l[i + k]
        BY <1>1, SubSeqProperties
  <2>3. r = front \o back
        BY DEF RemoveAt
  <2> HIDE DEF front, back
  <2>4. /\ front \o back \in Seq(Breakpoints)
        /\ DOMAIN (front \o back) = 1 .. (i - 1) + (Len(l) - i)
        /\ \A k \in 1 .. (i - 1) : (front \o back)[k] = front[k]
        /\ \A k \in 1 .. (Len(l) - i) : (front \o back)[(i - 1) + k] = back[k]
    <3>1. DOMAIN front = 1 .. (i - 1) /\ DOMAIN back = 1 .. (Len(l) - i)
          BY <2>1, <2>2
    <3>2. /\ front \o back \in Seq(Breakpoints)
          /\ DOMAIN (front \o back) = 1 .. Len(front) + Len(back)
          /\ \A k \in DOMAIN front : (front \o back)[k] = front[k]
          /\ \A k \in DOMAIN back : (front \o back)[Len(front) + k] = back[k]
      <4>1. front \in Seq(Breakpoints) /\ back \in Seq(Breakpoints)
            BY <2>1, <2>2
      <4> QED
          BY ONLY <4>1, JoinedPlaces, SMTT(30)
    <3> QED
        BY <2>1, <2>2, <3>1, <3>2
  <2>5. ASSUME NEW k \in 1 .. (Len(l) - 1)
        PROVE  (front \o back)[k] = IF k < i THEN l[k] ELSE l[k + 1]
    <3>1. CASE k < i
          BY <3>1, <1>1, <2>1, <2>4
    <3>2. CASE ~ k < i
      <4>1. /\ k - (i - 1) \in 1 .. (Len(l) - i) /\ (i - 1) + (k - (i - 1)) = k
            /\ i + (k - (i - 1)) = k + 1
            BY <3>2, <1>1
      <4> QED
          BY SMTT(20), <3>2, <4>1, <2>2, <2>4
    <3> QED
        BY <3>1, <3>2
  <2>6. (i - 1) + (Len(l) - i) = Len(l) - 1
        BY <1>1
  <2> QED
      BY <2>3, <2>4, <2>5, <2>6
<1> HIDE DEF r
<1>3. ASSUME NumbersOf(l), NEW j \in DOMAIN r, NEW k \in DOMAIN r, r[j].num = r[k].num PROVE j = k
  <2> DEFINE at(n) == IF n < i THEN n ELSE n + 1
  <2>1. at(j) \in DOMAIN l /\ at(k) \in DOMAIN l /\ r[j] = l[at(j)] /\ r[k] = l[at(k)]
        BY <1>1, <1>2
  <2>2. at(j) = at(k)
        BY <1>3, <2>1 DEF NumbersOf
  <2> QED
      BY <2>2, <1>1, <1>2
<1>4. ASSUME NumbersOf(l), NEW b \in ToSet(r) PROVE b \in ToSet(l) /\ b.num # l[i].num
  <2>1. PICK k \in DOMAIN r : b = r[k]
        BY DEF ToSet
  <2>2. \E n \in DOMAIN l : n # i /\ b = l[n]
    <3>1. CASE k < i
          BY <3>1, <1>1, <1>2, <2>1
    <3>2. CASE ~ k < i
      <4>1. k + 1 \in DOMAIN l /\ k + 1 # i /\ b = l[k + 1]
            BY <3>2, <1>1, <1>2, <2>1
      <4> QED
          BY <4>1
    <3> QED
        BY <3>1, <3>2
  <2> QED
      BY <2>2, <1>1, <1>4 DEF ToSet, NumbersOf
<1>5. ASSUME NEW b \in ToSet(l), b.num # l[i].num PROVE b \in ToSet(r)
  <2>1. PICK n \in DOMAIN l : b = l[n]
        BY DEF ToSet
  <2>2. n # i
        BY <2>1, <1>5
  <2>3. CASE n < i
    <3>1. n \in DOMAIN r /\ r[n] = l[n]
          BY <2>3, <1>1, <1>2
    <3> QED
        BY <3>1, <2>1 DEF ToSet
  <2>4. CASE i < n
    <3>1. n - 1 \in DOMAIN r /\ r[n - 1] = l[n]
          BY <2>4, <1>1, <1>2
    <3> QED
        BY <3>1, <2>1 DEF ToSet
  <2> QED
      BY <2>2, <2>3, <2>4, <1>1
<1>6. NumbersOf(l) => NumbersOf(r) /\ ToSet(r) = {b \in ToSet(l) : b.num # l[i].num}
      BY <1>3, <1>4, <1>5 DEF NumbersOf
<1> QED
    BY <1>2, <1>6 DEF r

LEMMA RemoveBreakpointKeeps == IInv /\ RemoveBreakpoint => IInv'
<1> SUFFICES ASSUME IInv, RemoveBreakpoint PROVE IInv'
    OBVIOUS
<1>1. PICK i \in DOMAIN listed :
          Send(<<Cmd("delete", listed[i].num, listed[i].place)>>) /\ listed' = RemoveAt(listed, i)
      BY DEF RemoveBreakpoint
<1>2. /\ Idle
      /\ UNCHANGED <<kind, astate, counter, op, alive, bps, made, prog, sound, missed>>
      BY DEF RemoveBreakpoint, debuggerVars, historyVars
<1> DEFINE c == Cmd("delete", listed[i].num, listed[i].place)
<1>3. /\ listed \in Seq(Breakpoints) /\ cmds \in Seq(Commands)
      /\ listed[i] \in Breakpoints /\ c \in Commands /\ c.cmd = "delete" /\ c.num = listed[i].num
  <2>1. listed \in Seq(Breakpoints) /\ cmds \in Seq(Commands)
        BY DEF IInv, Typed
  <2>2. listed[i] \in Breakpoints
        BY <2>1
  <2>3. listed[i].num \in Nat /\ listed[i].place \in Where
        BY <2>2 DEF Breakpoints
  <2> QED
      BY <2>1, <2>2, <2>3, CommandsTyped
<1>4. /\ op.cmd.cmd = "none" /\ op.text = <<>> /\ op = NoOp /\ out' = out
      /\ alive => cmds' = cmds \o <<c>>
      /\ ~alive => cmds' = cmds
      BY <1>1, <1>2, IdleOp DEF Send
<1> HIDE DEF c
<1>5. /\ cmds \o <<c>> \in Seq(Commands)
      /\ \A d : Has(cmds \o <<c>>, d) <=> Has(cmds, d) \/ d = "delete"
      /\ \A n : Deletes(cmds \o <<c>>, n) <=> Deletes(cmds, n) \/ n = listed[i].num
      /\ Resumes(cmds \o <<c>>) <=> Resumes(cmds)
      /\ ResumesOnce(cmds) => ResumesOnce(cmds \o <<c>>)
  <2>1. /\ <<c>> \in Seq(Commands) /\ ~Resumes(<<c>>)
        /\ \A d : Has(<<c>>, d) <=> d = "delete"
        /\ \A n : Deletes(<<c>>, n) <=> n = listed[i].num
        BY <1>3, HasOne, ResumesOne
  <2> QED
      BY <1>3, <2>1, HasJoined, ResumesJoined
<1>6. Typed'
  <2>1. RemoveAt(listed, i) \in Seq(Breakpoints)
        BY <1>3, Removed
  <2> QED
      BY <1>1, <1>2, <1>3, <1>4, <1>5, <2>1 DEF IInv, Typed
<1>7. OfKind'
      BY <1>2, <1>4, <1>5 DEF IInv, OfKind, NoOp, Plain, Cmd
<1>8. Greeted' /\ Numbers'
      BY <1>2, <1>4 DEF IInv, Greeted, Numbers
<1>9. Early'
      BY <1>1, <1>2, <1>3 DEF IInv, Early
<1>10. ASSUME alive, sound PROVE NumbersOf(listed') /\ ~Has(cmds', "break") /\ Matched'
  <2>1. NumbersOf(listed) /\ ~Has(cmds, "break") /\ Matched
        BY <1>4, <1>10 DEF IInv, Kept
  <2>2. /\ NumbersOf(listed')
        /\ ToSet(listed') = {b \in ToSet(listed) : b.num # listed[i].num}
        BY <1>1, <1>3, <2>1, Removed
  <2>3. ~Has(cmds', "break") /\ \A n : Deletes(cmds', n) <=> Deletes(cmds, n) \/ n = listed[i].num
        BY <1>4, <1>5, <1>10, <2>1
  <2>4. ToSet(listed') = {b \in bps : ~Deletes(cmds', b.num)}
        BY <2>1, <2>2, <2>3 DEF Matched
  <2> QED
      BY <1>2, <2>2, <2>3, <2>4 DEF Matched
<1>11. Kept'
      BY <1>2, <1>4, <1>10 DEF Kept
<1>12. Shown'
  <2>1. Lost' <=> Lost
        BY <1>2, <1>4 DEF Lost, Looking
  <2>2. SUFFICES ASSUME alive PROVE Shown'
        BY <1>2 DEF Shown, Looking
  <2>3. /\ \A d : Has(cmds, d) => Has(cmds', d)
        /\ Resumes(cmds') <=> Resumes(cmds)
        /\ ResumesOnce(cmds) => ResumesOnce(cmds')
        BY <1>4, <1>5, <2>2
  <2>4. GdbShown => GdbShown'
        BY <1>2, <1>4, <2>3 DEF GdbShown
  <2>5. ShellRests => ShellRests'
        BY <1>2, <1>4, <2>3 DEF ShellRests
  <2> QED
      BY <1>2, <1>4, <2>1, <2>4, <2>5 DEF IInv, Shown, Looking
<1> QED
    BY <1>6, <1>7, <1>8, <1>9, <1>11, <1>12 DEF IInv

LEMMA ClearAllKeeps == IInv /\ ClearAllBreakpoints => IInv'
<1> SUFFICES ASSUME IInv, ClearAllBreakpoints PROVE IInv'
    OBVIOUS
<1>1. /\ listed' = <<>> /\ ~sound'
      /\ UNCHANGED <<kind, astate, counter, op, cmds, out, alive, bps, made, prog, missed>>
      BY DEF ClearAllBreakpoints, debuggerVars
<1>2. Typed' /\ OfKind' /\ Early' /\ Greeted' /\ Numbers' /\ Kept'
      BY <1>1 DEF IInv, Typed, OfKind, Early, Greeted, Numbers, Kept
<1>3. Shown'
      BY <1>1 DEF IInv, Shown, Lost, GdbShown, ShellWaits, ShellRests, Looking
<1> QED
    BY <1>2, <1>3 DEF IInv

-----------------------------------------------------------------------------
(* A new debugger.                                                          *)

LEMMA FreshKeeps ==
    ASSUME IInv, NEW opening \in {<<>>, <<Plain("empty")>>}, CreateSession(opening),
           listed' = listed, listed = <<>> \/ ~sound',
           kind' = kind, counter' = counter, prog' \in {"none", "running", "stopped", "ended"},
           op' \in Ops, op'.text = <<>>, op'.cmd.cmd \in {"none", "launch"},
           op'.cmd.cmd = "none" => op' = NoOp, op'.cmd.cmd = "launch" => prog' = "stopped",
           kind = "gdb" => op'.cmd.cmd = "none", prog' = "running" => ~sess',
           sess' /\ prog' = "stopped" => op'.cmd.cmd = "launch",
           astate' \in States,
           astate' = "NONE" => ~sess' /\ listed = <<>> /\ op' = NoOp /\ prog' = "none"
    PROVE  IInv'
<1>1. /\ cmds' \in {<<>>, <<Plain("empty")>>} /\ bps' = {} /\ made' = 0 /\ (alive' <=> sess')
      /\ out' = Prompt \/ out' = <<>>
      BY DEF CreateSession
<1>2. /\ out' \in Seq(Outputs) /\ Silent(out') /\ ~Says(out', "refused")
      /\ \A v : Says(out', v) => v = "prompt"
  <2>1. /\ Prompt \in Seq(Outputs)
        /\ \A v : Says(Prompt, v) <=> v = "prompt"
        BY OneOutput DEF Prompt
  <2>2. /\ <<>> \in Seq(Outputs)
        /\ \A v : ~Says(<<>>, v)
        BY NothingSaid
  <2>3. out' \in Seq(Outputs) /\ \A v : Says(out', v) => v = "prompt"
        BY <1>1, <2>1, <2>2, Zenon
  <2>4. Silent(out') /\ ~Says(out', "refused")
        BY <2>3 DEF Silent, Notices
  <2> QED
      BY <2>3, <2>4
<1>3. /\ cmds' \in Seq(Commands)
      /\ \A c : Has(cmds', c) => c = "empty"
      /\ \A n : ~Deletes(cmds', n)
      /\ ~Resumes(cmds')
  <2>1. Plain("empty") \in Commands /\ Plain("empty").cmd = "empty"
        BY CommandsTyped
  <2>2. /\ cmds' \in Seq(Commands)
        /\ \A c : Has(cmds', c) => c = "empty"
        /\ \A n : ~Deletes(cmds', n)
    <3>1. CASE cmds' = <<Plain("empty")>>
      <4>1. /\ <<Plain("empty")>> \in Seq(Commands)
            /\ \A c : Has(<<Plain("empty")>>, c) <=> c = "empty"
            /\ \A n : ~Deletes(<<Plain("empty")>>, n)
            BY <2>1, HasOne
      <4> QED
          BY <3>1, <4>1, Zenon
    <3>2. CASE cmds' = <<>>
          BY <3>2 DEF Has, Deletes
    <3> QED
        BY <1>1, <3>1, <3>2
  <2> QED
      BY <2>2 DEF Resumes
<1>4. Typed'
      BY <1>1, <1>2, <1>3 DEF IInv, Typed
<1>5. OfKind'
      BY <1>2, <1>3 DEF OfKind
<1>6. Early'
      BY <1>1 DEF Early
<1>7. Greeted'
      BY <1>1, <1>2, <1>3 DEF Greeted, Silent
<1>8. Numbers' /\ Kept'
      BY <1>1, <1>3 DEF Numbers, Kept, Matched, NumbersOf, ToSet
<1>9. Shown'
  <2>1. ASSUME alive', kind = "gdb" PROVE GdbShown'
        BY <1>1, <2>1 DEF GdbShown
  <2>2. ASSUME alive', op'.cmd.cmd # "launch" PROVE ShellRests'
        BY <1>1, <1>3, <2>2 DEF ShellRests
  <2> QED
      BY <2>1, <2>2 DEF Shown, Looking
<1> QED
    BY <1>4, <1>5, <1>6, <1>7, <1>8, <1>9 DEF IInv

LEMMA AdapterInitKeeps == IInv /\ AdapterInit => IInv'
<1> SUFFICES ASSUME IInv, AdapterInit PROVE IInv'
    OBVIOUS
<1>1. /\ astate = "NONE" /\ CreateSession(<<>>)
      /\ astate' = IF sess' THEN "INITIALIZED" ELSE "NONE"
      /\ UNCHANGED <<kind, listed, counter, op, prog, sound, missed>>
      BY DEF AdapterInit, modelVars
<1>2. listed = <<>> /\ op = NoOp /\ prog = "none" /\ op.cmd.cmd = "none" /\ op.text = <<>>
      BY <1>1, CommandsTyped DEF IInv, Early, NoOp
<1>3. /\ op' \in Ops /\ op' = NoOp /\ op'.cmd.cmd = "none" /\ op'.text = <<>> /\ prog' = "none"
      BY <1>1, <1>2 DEF IInv, Typed
<1>4. astate' \in States /\ (astate' = "NONE" => ~sess')
      BY <1>1 DEF States
<1> QED
    BY <1>1, <1>2, <1>3, <1>4, FreshKeeps

LEMMA ShellLaunchKeeps == IInv /\ ShellLaunch => IInv'
<1> SUFFICES ASSUME IInv, ShellLaunch PROVE IInv'
    OBVIOUS
<1>1. /\ Idle /\ kind = "shell" /\ CreateSession(<<Plain("empty")>>) /\ astate' = "LAUNCHING"
      /\ sess' => op' = [NoOp EXCEPT !.cmd = Plain("launch"), !.left = Attempts]
      /\ ~sess' => op' = op
      /\ prog' = IF sess' THEN "stopped" ELSE "ended"
      /\ UNCHANGED <<kind, listed, counter, missed>>
      BY DEF ShellLaunch, modelVars
<1>2. listed = <<>> \/ ~sound'
  <2>1. sound' = (sound /\ listed = <<>>)
        BY DEF ShellLaunch
  <2> QED
      BY <2>1, Zenon
<1>3. op = NoOp /\ op.cmd.cmd = "none" /\ op.text = <<>> /\ op \in Ops
      BY <1>1, IdleOp DEF IInv, Typed
<1>4. /\ op' \in Ops /\ op'.text = <<>>
      /\ sess' => op'.cmd.cmd = "launch"
      /\ ~sess' => op' = NoOp /\ op'.cmd.cmd = "none"
  <2>1. CASE sess'
    <3>1. /\ op' = [cmd |-> Plain("launch"), text |-> <<>>, left |-> Attempts, clean |-> TRUE]
          BY <1>1, <2>1 DEF NoOp
    <3>2. Plain("launch") \in Commands /\ Plain("launch").cmd = "launch" /\ Attempts \in Int
          BY CommandsTyped, TextAssumption
    <3> QED
        BY <3>1, <3>2, <2>1 DEF Ops
  <2>2. CASE ~sess'
        BY <1>1, <1>3, <2>2
  <2> QED
      BY <2>1, <2>2
<1>5. prog' \in {"none", "running", "stopped", "ended"} /\ astate' \in States
      BY <1>1 DEF States
<1> QED
    BY <1>1, <1>2, <1>4, <1>5, FreshKeeps

-----------------------------------------------------------------------------
(* The debugger and its program.                                            *)

LEMMA DebuggerDiesKeeps == IInv /\ DebuggerDies => IInv'
<1> SUFFICES ASSUME IInv, DebuggerDies PROVE IInv'
    OBVIOUS
<1>1. /\ ~alive' /\ prog' = "ended" /\ alive
      /\ UNCHANGED <<kind, astate, listed, counter, op, cmds, out, bps, made, sound, missed>>
      BY DEF DebuggerDies, External, modelVars, historyVars
<1> QED
    BY <1>1 DEF IInv, Typed, OfKind, Early, Greeted, Numbers, Kept, Shown, Looking

\* The program is seen to stop, or to end.
LEMMA ProgramStopsKeeps == IInv /\ ProgramStops => IInv'
<1> SUFFICES ASSUME IInv, ProgramStops PROVE IInv'
    OBVIOUS
<1>1. /\ alive /\ prog = "running"
      /\ UNCHANGED <<kind, astate, listed, counter, op, cmds, alive, bps, made, sound, missed>>
      BY DEF ProgramStops, External, modelVars, historyVars
<1>2. PICK w \in Notices :
          /\ out' = out \o Text(w) \o Prompt
          /\ prog' \in {"stopped", "ended"}
          /\ prog' = "stopped" => w = "stopped"
          /\ kind = "gdb" => w = "stopped"
          /\ kind = "shell" => w = IF prog' = "stopped" THEN "stopped" ELSE "terminated"
  <2>1. kind \in {"gdb", "shell"}
        BY DEF IInv, Typed, Kinds
  <2>2. CASE prog' = "stopped" /\ out' = out \o Text("stopped") \o Prompt
        BY <2>2 DEF Notices
  <2>3. CASE prog' = "ended" /\ out' = out \o Text(IF kind = "gdb" THEN "stopped" ELSE "terminated") \o Prompt
    <3>1. CASE kind = "gdb"
      <4>1. out' = out \o Text("stopped") \o Prompt
            BY <2>3, <3>1
      <4> QED
          BY <4>1, <2>3, <3>1 DEF Notices
    <3>2. CASE kind = "shell"
      <4>1. out' = out \o Text("terminated") \o Prompt
            BY <2>3, <3>2
      <4> QED
          BY <4>1, <2>3, <3>2 DEF Notices
    <3> QED
        BY <2>1, <3>1, <3>2
  <2> QED
      BY <2>2, <2>3 DEF ProgramStops
<1>3. /\ out \in Seq(Outputs) /\ Text(w) \in Seq(Outputs) /\ Prompt \in Seq(Outputs)
      /\ out \o Text(w) \in Seq(Outputs) /\ out' \in Seq(Outputs)
      /\ \A v : Says(Text(w), v) <=> v = w
      /\ \A v : Says(Prompt, v) <=> v = "prompt"
      /\ Silent(Prompt) /\ Latest(Text(w), w)
  <2>1. /\ out \in Seq(Outputs) /\ Text(w) \in Seq(Outputs) /\ Prompt \in Seq(Outputs)
        /\ \A v : Says(Text(w), v) <=> v = w
        /\ \A v : Says(Prompt, v) <=> v = "prompt"
        /\ Latest(Text(w), w)
        BY OneOutput DEF IInv, Typed, Prompt
  <2>2. out \o Text(w) \in Seq(Outputs) /\ (out \o Text(w)) \o Prompt \in Seq(Outputs)
        BY ONLY <2>1
  <2> QED
      BY <1>2, <2>1, <2>2 DEF Silent, Notices
<1>4. \A v : Says(out', v) <=> Says(out, v) \/ v = w \/ v = "prompt"
  <2>1. \A v : Says((out \o Text(w)) \o Prompt, v) <=> Says(out, v) \/ Says(Text(w), v) \/ Says(Prompt, v)
        BY ONLY <1>3, SaysJoined
  <2> QED
      BY <1>2, <1>3, <2>1, Zenon
<1>5. Latest(out', w)
  <2>1. Latest(out \o Text(w), w)
        BY ONLY <1>2, <1>3, LatestJoined
  <2>2. Latest((out \o Text(w)) \o Prompt, w)
        BY ONLY <1>2, <1>3, <2>1, LatestJoined
  <2> QED
      BY <1>2, <2>2
<1>6. Typed'
      BY <1>1, <1>2, <1>3 DEF IInv, Typed
<1>7. OfKind'
      BY <1>1, <1>2, <1>4 DEF IInv, OfKind
<1>8. Early' /\ Greeted' /\ Numbers'
      BY <1>1 DEF IInv, Early, Greeted, Numbers
<1>9. Kept'
  <2>1. \A n : Mentions(out, n) => Mentions(out', n)
    <3> TAKE n
    <3>1. Mentions(Text(w), n) /\ Mentions(Prompt, n)
          BY <1>2, <1>3, UnsaidMentions DEF Notices
    <3>2. Mentions((out \o Text(w)) \o Prompt, n) <=> Mentions(out, n)
          BY ONLY <1>3, <3>1, MentionsJoined
    <3> QED
        BY <1>2, <3>2
  <2>2. Unspoken => Unspoken'
        BY <1>1, <1>2, <1>4 DEF Unspoken, Notices
  <2>3. \A b : Spoken(b) => Spoken(b)'
        BY <1>1, <2>1 DEF Spoken
  <2>4. Setting => Setting'
        BY <1>1, <2>2, <2>3 DEF Setting
  <2> QED
      BY <1>1, <2>4 DEF IInv, Kept, Matched
<1>10. Shown'
  <2>1. Lost' <=> Lost
        BY <1>1, <1>4 DEF Lost, Notices, Looking
  <2>2. ASSUME kind = "gdb" PROVE GdbShown'
        BY <1>2, <1>5, <2>2 DEF GdbShown
  <2>3. ASSUME kind = "shell", ShellWaits PROVE ShellWaits'
        BY <1>1, <1>2, <1>4, <2>3 DEF ShellWaits, Only, Silent, Notices
  <2>4. ASSUME kind = "shell", ShellRests PROVE ShellRests'
        BY <1>1, <1>2, <1>4, <2>4 DEF ShellRests, Only, Silent, Notices
  <2> QED
      BY <1>1, <2>1, <2>2, <2>3, <2>4 DEF IInv, Shown, Looking
<1> QED
    BY <1>6, <1>7, <1>8, <1>9, <1>10 DEF IInv

\* What the debugger appends to its output.
LEMMA Appended ==
    ASSUME NEW s \in Seq(Outputs), NEW w \in Notices \cup {"bkpt", "done", "refused"}, NEW n \in Nat
    PROVE  LET u == s \o <<Item(w, n)>> \o Prompt IN
           /\ u \in Seq(Outputs)
           /\ \A v : Says(u, v) <=> Says(s, v) \/ v = w \/ v = "prompt"
           /\ w \notin Notices => \A v \in Notices : Latest(u, v) <=> Latest(s, v)
           /\ w \in Notices => Latest(u, w)
           /\ \A m : (w # "bkpt" \/ n = m) /\ Mentions(s, m) => Mentions(u, m)
<1> DEFINE a == <<Item(w, n)>>
           b == s \o a
<1>1. /\ a \in Seq(Outputs) /\ Prompt \in Seq(Outputs)
      /\ \A v : Says(a, v) <=> v = w
      /\ \A v : Says(Prompt, v) <=> v = "prompt"
      /\ \A m : w # "bkpt" \/ n = m => Mentions(a, m)
      /\ w \in Notices => Latest(a, w)
  <2>1. /\ Item(w, n).what = w /\ Item(w, n).num = n /\ Item(w, n) \in Outputs
        /\ Prompt \in Seq(Outputs) /\ \A v : Says(Prompt, v) <=> v = "prompt"
        BY OneOutput DEF Prompt
  <2> QED
      BY <2>1 DEF Says, Mentions, Latest
<1>2. Silent(Prompt) /\ (\A m : Mentions(Prompt, m)) /\ (w \notin Notices => Silent(a))
      BY <1>1, UnsaidMentions DEF Silent, Notices
<1> HIDE DEF a
<1>3. b \in Seq(Outputs)
      BY <1>1
<1>4. /\ \A v : Says(b, v) <=> Says(s, v) \/ Says(a, v)
      /\ \A v \in Notices : Latest(b, v) <=> Latest(a, v) \/ (Silent(a) /\ Latest(s, v))
      /\ \A m : Mentions(b, m) <=> Mentions(s, m) /\ Mentions(a, m)
      BY <1>1, SaysJoined, LatestJoined, MentionsJoined
<1> HIDE DEF b
<1>5. /\ b \o Prompt \in Seq(Outputs)
      /\ \A v : Says(b \o Prompt, v) <=> Says(b, v) \/ Says(Prompt, v)
      /\ \A v \in Notices : Latest(b \o Prompt, v) <=> Latest(Prompt, v) \/ (Silent(Prompt) /\ Latest(b, v))
      /\ \A m : Mentions(b \o Prompt, m) <=> Mentions(b, m) /\ Mentions(Prompt, m)
      BY <1>1, <1>3, SaysJoined, LatestJoined, MentionsJoined
<1>6. \A v \in Notices : ~Latest(Prompt, v) /\ (Silent(a) => ~Latest(a, v))
      BY <1>2, LatestSays
<1>7. /\ b \o Prompt \in Seq(Outputs)
      /\ \A v : Says(b \o Prompt, v) <=> Says(s, v) \/ v = w \/ v = "prompt"
      /\ w \notin Notices => \A v \in Notices : Latest(b \o Prompt, v) <=> Latest(s, v)
      /\ w \in Notices => Latest(b \o Prompt, w)
      /\ \A m : (w # "bkpt" \/ n = m) /\ Mentions(s, m) => Mentions(b \o Prompt, m)
      BY <1>1, <1>2, <1>4, <1>5, <1>6
<1> QED
    BY <1>7 DEF a, b

\* The debugger takes a command, other than one that moves the program, and says nothing of
\* the program.
LEMMA CarriedOutShown ==
    ASSUME IInv, alive, cmds # <<>>,
           Head(cmds).cmd \notin {"run", "resume", "continue", "step", "exit"},
           cmds' = Tail(cmds), UNCHANGED <<kind, astate, op, prog, alive, missed>>,
           \A v \in Notices : Says(out', v) <=> Says(out, v),
           \A v \in Notices : Latest(out', v) <=> Latest(out, v),
           ~Says(out', "refused") => ~Says(out, "refused")
    PROVE  Shown'
<1>1. cmds \in Seq(Commands)
      BY DEF IInv, Typed
<1>2. /\ Head(cmds) \in Commands /\ Tail(cmds) \in Seq(Commands)
      /\ cmds = <<Head(cmds)>> \o Tail(cmds)
      /\ \A c : Has(cmds, c) <=> c = Head(cmds).cmd \/ Has(Tail(cmds), c)
      BY <1>1, HasRead
<1>3. ~Lost' => ~Lost
      BY DEF Lost, Looking
<1>4. Silent(out') <=> Silent(out)
      BY DEF Silent
<1>5. Only(out', "stopped") <=> Only(out, "stopped")
      BY DEF Only
<1>6. GdbShown => GdbShown'
      BY <1>2, <1>4 DEF GdbShown, Notices
<1>7. ShellWaits /\ Looking => FALSE
      BY DEF ShellWaits, Looking
<1>8. ASSUME ShellRests PROVE ShellRests'
  <2>1. Resumes(Tail(cmds)) <=> Resumes(cmds)
        BY <1>2 DEF Resumes
  <2>2. ResumesOnce(cmds) => ResumesOnce(Tail(cmds))
    <3>1. ResumesOnce(cmds) => ResumesOnce(<<Head(cmds)>> \o Tail(cmds))
          BY <1>2, Zenon
    <3> QED
        BY <1>2, <3>1, ResumesRead
  <2> QED
      BY <1>2, <1>4, <1>5, <1>8, <2>1, <2>2 DEF ShellRests, Notices
<1> QED
    BY <1>3, <1>6, <1>7, <1>8 DEF IInv, Shown, Looking

LEMMA DebuggerKeeps == IInv /\ Debugger => IInv'
<1> SUFFICES ASSUME IInv, Debugger PROVE IInv'
    OBVIOUS
<1> DEFINE c == Head(cmds)
           rest == Tail(cmds)
<1>1. /\ alive /\ cmds # <<>> /\ cmds' = rest /\ CarryOut(c)
      /\ kind = "gdb" \/ prog # "running"
      /\ UNCHANGED <<kind, astate, listed, counter, op, sound, missed>>
      BY DEF Debugger, External, modelVars, historyVars
<1>2. cmds \in Seq(Commands) /\ out \in Seq(Outputs) /\ made \in Nat
      BY DEF IInv, Typed
<1>3. /\ c \in Commands /\ rest \in Seq(Commands) /\ cmds = <<c>> \o rest
      /\ \A d : Has(cmds, d) <=> d = c.cmd \/ Has(rest, d)
      /\ \A n : Deletes(cmds, n) <=> (c.cmd = "delete" /\ c.num = n) \/ Deletes(rest, n)
      BY <1>1, <1>2, HasRead
<1>4. \A d : cmds = <<d>> => c = d /\ rest = <<>>
      OBVIOUS
<1> HIDE DEF c, rest
<1>5. c.cmd \in {"none", "break", "delete", "evaluate", "continue", "step", "launch", "run",
                 "resume", "set", "interrupt", "exit", "empty"} /\ c.num \in Nat /\ c.place \in Where
      BY <1>3 DEF Commands
<1>6. /\ astate # "NONE"
      /\ op.cmd.cmd = "launch" =>
            /\ c.cmd = "empty" /\ \A d : Has(rest, d) => d = "empty"
            /\ prog = "stopped" /\ \A w \in Notices \cup {"refused"} : ~Says(out, w)
      BY <1>1, <1>3 DEF IInv, Greeted, Early
<1>7. Early' /\ (c.cmd # "empty" => Greeted')
      BY <1>1, <1>6 DEF Early, Greeted
<1>8. /\ kind = "gdb" => c.cmd \notin {"continue", "step"}
                         /\ ~Has(cmds', "continue") /\ ~Has(cmds', "step") /\ ~Says(out, "terminated")
      /\ kind = "shell" => c.cmd \notin {"run", "resume"}
                           /\ ~Has(cmds', "run") /\ ~Has(cmds', "resume") /\ ~Says(out, "running")
      /\ kind \in {"gdb", "shell"}
      BY <1>1, <1>3 DEF IInv, OfKind, Typed, Kinds
<1>9. /\ op.cmd.cmd \in {"none", "break", "evaluate", "continue", "step", "launch"}
      /\ op.cmd.cmd = "none" => op = NoOp
      /\ kind = "gdb" => op.cmd.cmd \notin {"continue", "step", "launch"}
      BY DEF IInv, OfKind
<1>10. ASSUME ~Says(out', "terminated") \/ kind = "shell", ~Says(out', "running") \/ kind = "gdb"
       PROVE  OfKind'
       BY <1>1, <1>8, <1>9, <1>10 DEF OfKind
<1>11. ASSUME alive, sound
       PROVE  /\ NumbersOf(listed)
              /\ op.cmd.cmd # "break" => c.cmd # "break" /\ ~Has(rest, "break") /\ Matched
              /\ op.cmd.cmd = "break" /\ op.clean =>
                     c = op.cmd /\ rest = <<>> /\ ToSet(listed) = bps /\ Unspoken
       BY <1>1, <1>3, <1>4, <1>11 DEF IInv, Kept, Setting
<1>12. CASE /\ c.cmd = "break"
            /\ made' = made + 1 /\ bps' = bps \cup {[num |-> made + 1, place |-> c.place]}
            /\ out' = out \o <<Item("bkpt", made + 1)>> \o Prompt
            /\ UNCHANGED <<alive, prog, stops>>
  <2>1. PICK n \in Nat : n = made + 1
        BY <1>2
  <2>2. PICK b \in Breakpoints :
            b.num = made + 1 /\ b.place = c.place /\ bps' = bps \cup {b}
    <3>1. [num |-> n, place |-> c.place] \in Breakpoints
          BY <1>5 DEF Breakpoints
    <3> QED
        BY <3>1, <2>1, <1>12
  <2>3. /\ out' \in Seq(Outputs)
        /\ \A v : Says(out', v) <=> Says(out, v) \/ v = "bkpt" \/ v = "prompt"
        /\ \A v \in Notices : Latest(out', v) <=> Latest(out, v)
        /\ Mentions(out, n) => Mentions(out', n)
    <3>1. out' = out \o <<Item("bkpt", n)>> \o Prompt
          BY <1>12, <2>1
    <3>2. "bkpt" \in Notices \cup {"bkpt", "done", "refused"} /\ "bkpt" \notin Notices
          BY DEF Notices
    <3> QED
        BY ONLY <1>2, <3>1, <3>2, Appended
  <2>4. ~Says(out, "bkpt") => Mentions(out', made + 1)
        BY <2>1, <2>3, UnsaidMentions
  <2>5. Typed'
        BY <1>1, <1>2, <1>3, <1>12, <2>2, <2>3 DEF IInv, Typed
  <2>6. OfKind'
        BY <1>8, <1>10, <2>3
  <2>7. Numbers'
    <3>1. \A d \in bps : d.num \in 1 .. made /\ d \in Breakpoints
          BY DEF IInv, Numbers, Typed
    <3>2. \A d \in bps' : d.num \in 1 .. made'
          BY <1>2, <1>12, <2>2, <3>1
    <3>3. \A d, e \in bps' : d.num = e.num => d = e
          BY <1>2, <2>2, <3>1 DEF IInv, Numbers
    <3> QED
        BY <3>2, <3>3 DEF Numbers
  <2>8. Kept'
    <3>1. ASSUME sound, op.cmd.cmd = "break", op.clean PROVE Setting'
      <4>1. c = op.cmd /\ rest = <<>> /\ ToSet(listed) = bps /\ Unspoken
            BY <1>1, <1>11, <3>1
      <4>2. b \notin bps
            BY <1>2, <2>2 DEF IInv, Numbers
      <4>3. Mentions(op.text, made + 1) /\ Mentions(out', made + 1)
            BY <2>4, <4>1, UnsaidMentions DEF Unspoken
      <4>4. Spoken(b)'
            BY <1>1, <1>12, <2>2, <4>1, <4>2, <4>3 DEF Spoken
      <4> QED
          BY <1>1, <2>2, <4>1, <4>4 DEF Setting
    <3>2. sound => op.cmd.cmd = "break" /\ NumbersOf(listed)
          BY <1>1, <1>11, <1>12
    <3> QED
        BY <1>1, <3>1, <3>2 DEF Kept
  <2>9. Shown'
        BY <1>1, <1>12, <2>3, CarriedOutShown DEF c, rest, Notices
  <2> QED
      BY <1>7, <1>12, <2>5, <2>6, <2>7, <2>8, <2>9 DEF IInv
<1>13. CASE /\ c.cmd = "delete"
            /\ bps' = {b \in bps : b.num # c.num}
            /\ out' = out \o Prompt
            /\ UNCHANGED <<alive, made, prog, stops>>
  <2>1. /\ out' \in Seq(Outputs)
        /\ \A v : Says(out', v) <=> Says(out, v) \/ v = "prompt"
        /\ \A v \in Notices : Latest(out', v) <=> Latest(out, v)
    <3>1. Prompt \in Seq(Outputs) /\ Silent(Prompt) /\ \A v : Says(Prompt, v) <=> v = "prompt"
          BY OneOutput DEF Prompt, Silent, Notices
    <3>2. /\ out \o Prompt \in Seq(Outputs)
          /\ \A v : Says(out \o Prompt, v) <=> Says(out, v) \/ Says(Prompt, v)
          /\ \A v \in Notices : Latest(out \o Prompt, v) <=> Latest(Prompt, v) \/ Latest(out, v)
          BY <1>2, <3>1, SaysJoined, LatestJoined
    <3> QED
        BY <1>13, <3>1, <3>2, LatestSays
  <2>2. Typed'
        BY <1>1, <1>3, <1>13, <2>1 DEF IInv, Typed
  <2>3. OfKind'
        BY <1>8, <1>10, <2>1
  <2>4. Numbers'
        BY <1>13 DEF IInv, Numbers
  <2>5. Kept'
    <3>1. ASSUME sound PROVE op.cmd.cmd # "break" => ~Has(cmds', "break") /\ Matched'
      <4>1. Matched /\ op.cmd.cmd # "break" => Matched'
            BY <1>1, <1>3, <1>13 DEF Matched
      <4> QED
          BY <1>1, <1>11, <3>1, <4>1
    <3>2. sound => NumbersOf(listed) /\ ~(op.cmd.cmd = "break" /\ op.clean)
          BY <1>1, <1>11, <1>13
    <3> QED
        BY <1>1, <3>1, <3>2 DEF Kept
  <2>6. Shown'
        BY <1>1, <1>13, <2>1, CarriedOutShown DEF c, rest, Notices
  <2> QED
      BY <1>7, <1>13, <2>2, <2>3, <2>4, <2>5, <2>6 DEF IInv
<1>14. ASSUME UNCHANGED <<bps, made, alive>>, c.cmd # "delete",
              out' \in Seq(Outputs), Says(out', "bkpt") => Says(out, "bkpt")
       PROVE  Numbers' /\ Kept'
  <2>1. Numbers'
        BY <1>14 DEF IInv, Numbers
  <2>2. sound => NumbersOf(listed)
        BY <1>1, <1>11
  <2>3. ASSUME sound, op.cmd.cmd # "break" PROVE ~Has(cmds', "break") /\ Matched'
        BY <1>1, <1>3, <1>11, <1>14, <2>3 DEF Matched
  <2>4. ASSUME sound, op.cmd.cmd = "break", op.clean PROVE Setting'
        BY <1>1, <1>11, <1>14, <2>4 DEF Setting, Unspoken
  <2> QED
      BY <1>1, <2>1, <2>2, <2>3, <2>4 DEF Kept
<1>15. CASE /\ \/ c.cmd = "run" /\ prog \in {"none", "ended"}
               \/ c.cmd = "resume" /\ prog = "stopped"
            /\ prog' = "running" /\ out' = out \o Text("running") \o Prompt
            /\ UNCHANGED <<alive, bps, made, stops>>
  <2>1. /\ out' \in Seq(Outputs)
        /\ \A v : Says(out', v) <=> Says(out, v) \/ v = "running" \/ v = "prompt"
        /\ Latest(out', "running") /\ kind = "gdb"
    <3>1. kind = "gdb"
          BY <1>8, <1>15
    <3> QED
        BY <1>2, <1>15, <3>1, Appended DEF Text, Notices
  <2>2. Typed'
        BY <1>1, <1>3, <1>15, <2>1 DEF IInv, Typed
  <2>3. OfKind'
        BY <1>8, <1>10, <2>1
  <2>4. Numbers' /\ Kept'
        BY <1>14, <1>15, <2>1
  <2>5. Shown'
        BY <1>1, <1>15, <2>1 DEF Shown, GdbShown, Looking
  <2> QED
      BY <1>7, <1>15, <2>2, <2>3, <2>4, <2>5 DEF IInv
<1>16. CASE /\ c.cmd \in {"continue", "step"} /\ prog = "stopped"
            /\ prog' = "running"
            /\ UNCHANGED <<alive, bps, made, stops, out>>
  <2>1. kind = "shell"
        BY <1>8, <1>16
  <2>2. Typed' /\ OfKind'
        BY <1>1, <1>2, <1>3, <1>8, <1>10, <1>16, <2>1 DEF IInv, Typed, OfKind
  <2>3. Numbers' /\ Kept'
        BY <1>2, <1>14, <1>16
  <2>4. ASSUME ShellWaits, Looking PROVE ShellWaits'
        BY <1>1, <1>4, <1>16, <2>4 DEF ShellWaits
  <2>5. ASSUME ShellRests PROVE ShellRests'
    <3>1. Resumes(cmds)
          BY <1>3, <1>16 DEF Resumes
    <3>2. ResumesOnce(<<c>> \o rest) => ~Resumes(rest)
          BY <1>3, <1>16, ResumesRead
    <3>3. ResumesOnce(cmds) /\ Silent(out) /\ astate # "STOPPED"
          BY <2>5, <3>1, <1>16 DEF ShellRests
    <3>4. ~Resumes(rest)
          BY <3>2, <3>3, <1>3, Zenon
    <3> QED
        BY <1>1, <1>16, <3>3, <3>4 DEF ShellRests
  <2>6. Shown'
        BY <1>1, <1>16, <2>1, <2>4, <2>5 DEF IInv, Shown, Lost, Looking
  <2> QED
      BY <1>7, <1>16, <2>2, <2>3, <2>6 DEF IInv
<1>17. CASE /\ c.cmd \in {"empty", "evaluate", "set", "interrupt"}
            /\ out' = out \o Text("done") \o Prompt
            /\ UNCHANGED debuggerVars
  <2>1. /\ out' \in Seq(Outputs)
        /\ \A v : Says(out', v) <=> Says(out, v) \/ v = "done" \/ v = "prompt"
        /\ \A v \in Notices : Latest(out', v) <=> Latest(out, v)
        BY <1>2, <1>17, Appended DEF Text, Notices
  <2>2. UNCHANGED <<alive, bps, made, prog>>
        BY <1>17 DEF debuggerVars
  <2>3. Typed'
        BY <1>1, <1>3, <2>1, <2>2 DEF IInv, Typed
  <2>4. OfKind'
        BY <1>8, <1>10, <2>1
  <2>5. Numbers' /\ Kept'
        BY <1>14, <1>17, <2>1, <2>2
  <2>6. Shown'
        BY <1>1, <1>17, <2>1, <2>2, CarriedOutShown DEF c, rest, Notices
  <2>7. Greeted'
        BY <1>1, <1>6, <2>1, <2>2 DEF Greeted, Notices
  <2> QED
      BY <1>7, <2>7, <2>3, <2>4, <2>5, <2>6 DEF IInv
<1>18. CASE /\ c.cmd = "exit"
            /\ alive' = FALSE /\ prog' = "ended"
            /\ UNCHANGED <<out, bps, made, stops>>
  <2>1. Typed' /\ OfKind'
        BY <1>1, <1>2, <1>3, <1>8, <1>10, <1>18 DEF IInv, Typed
  <2>2. Numbers' /\ Kept' /\ Shown'
        BY <1>18 DEF IInv, Numbers, Kept, Shown, Looking
  <2> QED
      BY <1>7, <1>18, <2>1, <2>2 DEF IInv
<1>19. CASE /\ c.cmd \in {"break", "run", "resume", "continue", "step"}
            /\ out' = out \o Text("refused") \o Prompt
            /\ UNCHANGED debuggerVars
  <2>1. /\ out' \in Seq(Outputs)
        /\ \A v : Says(out', v) <=> Says(out, v) \/ v = "refused" \/ v = "prompt"
        BY <1>2, <1>19, Appended DEF Text, Notices
  <2>2. UNCHANGED <<alive, bps, made, prog>>
        BY <1>19 DEF debuggerVars
  <2>3. Typed'
        BY <1>1, <1>3, <2>1, <2>2 DEF IInv, Typed
  <2>4. OfKind'
        BY <1>8, <1>10, <2>1
  <2>5. Numbers' /\ Kept'
        BY <1>14, <1>19, <2>1, <2>2
  <2>6. Shown'
    <3>1. SUFFICES ASSUME ~Lost' PROVE kind = "shell" /\ Looking /\ ShellWaits'
          BY <1>1 DEF Shown, Looking
    <3>2. Looking /\ ~Lost /\ kind = "shell"
          BY <1>1, <1>8, <1>9, <2>1, <3>1 DEF Lost, Looking
    <3>3. ShellWaits
          BY <1>1, <3>2 DEF IInv, Shown
    <3>4. cmds = <<op.cmd>> /\ prog # "running" /\ Silent(out) /\ Silent(op.text)
          BY <1>1, <3>3 DEF ShellWaits
    <3>5. rest = <<>> /\ Silent(out') /\ Says(out', "refused")
          BY <1>4, <2>1, <3>4 DEF Silent, Notices
    <3> QED
        BY <1>1, <2>2, <3>2, <3>4, <3>5 DEF ShellWaits
  <2> QED
      BY <1>7, <1>19, <2>3, <2>4, <2>5, <2>6 DEF IInv
<1> QED
    BY <1>1, <1>12, <1>13, <1>15, <1>16, <1>17, <1>18, <1>19 DEF CarryOut

-----------------------------------------------------------------------------
(* Reading.                                                                 *)

\* The reader takes p of what is in the pipe, adds it to what it has and leaves r.
LEMMA Taken ==
    ASSUME NEW a \in Seq(Outputs), NEW p \in Seq(Outputs), NEW r \in Seq(Outputs)
    PROVE  /\ a \o p \in Seq(Outputs)
           /\ \A v : Says(a \o p, v) <=> Says(a, v) \/ Says(p, v)
           /\ \A v : Says(p \o r, v) <=> Says(p, v) \/ Says(r, v)
           /\ \A v \in Notices : Latest(p \o r, v) <=> Latest(r, v) \/ (Silent(r) /\ Latest(p, v))
           /\ \A m : Mentions(a \o p, m) <=> Mentions(a, m) /\ Mentions(p, m)
           /\ \A m : Mentions(p \o r, m) <=> Mentions(p, m) /\ Mentions(r, m)
<1>1. a \o p \in Seq(Outputs)
      OBVIOUS
<1>2. /\ \A v : Says(a \o p, v) <=> Says(a, v) \/ Says(p, v)
      /\ \A v : Says(p \o r, v) <=> Says(p, v) \/ Says(r, v)
      BY ONLY SaysJoined, a \in Seq(Outputs), p \in Seq(Outputs), r \in Seq(Outputs)
<1>3. \A v \in Notices : Latest(p \o r, v) <=> Latest(r, v) \/ (Silent(r) /\ Latest(p, v))
      BY ONLY LatestJoined, p \in Seq(Outputs), r \in Seq(Outputs)
<1>4. /\ \A m : Mentions(a \o p, m) <=> Mentions(a, m) /\ Mentions(p, m)
      /\ \A m : Mentions(p \o r, m) <=> Mentions(p, m) /\ Mentions(r, m)
      BY ONLY MentionsJoined, a \in Seq(Outputs), p \in Seq(Outputs), r \in Seq(Outputs)
<1> QED
    BY <1>1, <1>2, <1>3, <1>4

\* The number read is that of the first breakpoint mentioned.
LEMMA NumberMentioned ==
    ASSUME NEW s \in Seq(Outputs)
    PROVE  /\ Number(s) \in Nat
           /\ \A m : Says(s, "bkpt") /\ Mentions(s, m) => Number(s) = m
<1>1. DOMAIN s = 1 .. Len(s) /\ Len(s) \in Nat /\ \A i \in DOMAIN s : s[i] \in Outputs
      OBVIOUS
<1>2. CASE ~Says(s, "bkpt")
      BY <1>2 DEF Number
<1>3. CASE Says(s, "bkpt")
  <2> DEFINE T == {k \in Nat : k \in DOMAIN s /\ s[k].what = "bkpt"}
             First(i) == i \in DOMAIN s /\ s[i].what = "bkpt"
                         /\ \A j \in 1 .. (i - 1) : s[j].what # "bkpt"
  <2>1. PICK i \in DOMAIN s : s[i].what = "bkpt"
        BY <1>3 DEF Says
  <2>2. i \in T
        BY <1>1, <2>1
  <2>3. PICK m \in T : \A k \in T : ~(<<k, m>> \in OpToRel(<, Nat))
        BY <2>2, NatLessThanWellFounded, WFMin, T \in SUBSET Nat, Zenon
  <2>4. \A k \in T : ~ k < m
        BY <2>3, Zenon DEF OpToRel
  <2>5. First(m)
    <3>1. m \in DOMAIN s /\ s[m].what = "bkpt" /\ m \in Nat
          OBVIOUS
    <3>2. ASSUME NEW j \in 1 .. (m - 1), s[j].what = "bkpt" PROVE FALSE
      <4>1. j \in DOMAIN s /\ j \in Nat /\ j < m
            BY <1>1, <3>1
      <4> QED
          BY <4>1, <3>2, <2>4
    <3> QED
        BY <3>1, <3>2
  <2> DEFINE k == CHOOSE i1 \in DOMAIN s :
                      s[i1].what = "bkpt" /\ \A j \in 1 .. (i1 - 1) : s[j].what # "bkpt"
  <2>6. k \in DOMAIN s /\ s[k].what = "bkpt"
        BY <2>5
  <2>7. Number(s) = s[k].num
        BY <1>3 DEF Number
  <2> HIDE DEF k
  <2> QED
      BY <1>1, <2>6, <2>7 DEF Outputs, Mentions
<1> QED
    BY <1>2, <1>3

\* What is read without a notice in it changes nothing that is shown.
LEMMA QuietlyRead ==
    ASSUME Typed,
           NEW p \in Seq(Outputs), NEW r \in Seq(Outputs), out = p \o r, out' = r, Silent(p),
           UNCHANGED <<astate, prog>>,
           cmds' = cmds \/ cmds' = Append(cmds, Plain("set"))
    PROVE  /\ GdbShown => GdbShown'
           /\ ShellRests => ShellRests'
<1>1. /\ \A v : Says(out, v) <=> Says(p, v) \/ Says(r, v)
      /\ \A v \in Notices : Latest(out, v) <=> Latest(r, v) \/ (Silent(r) /\ Latest(p, v))
      BY Taken
<1>2. /\ Silent(out') <=> Silent(out)
      /\ Only(out, "stopped") <=> Only(out', "stopped")
      /\ \A v \in Notices : (Says(out', v) <=> Says(out, v)) /\ (Latest(out', v) <=> Latest(out, v))
      BY <1>1, LatestSays DEF Silent, Only
<1>3. /\ \A c \in {"run", "resume", "exit"} : Has(cmds, c) => Has(cmds', c)
      /\ Resumes(cmds') <=> Resumes(cmds)
      /\ ResumesOnce(cmds) => ResumesOnce(cmds')
  <2>1. CASE cmds' = cmds
        BY <2>1
  <2>2. CASE cmds' = Append(cmds, Plain("set"))
    <3>1. Plain("set") \in Commands /\ Plain("set").cmd = "set" /\ cmds \in Seq(Commands)
          BY CommandsTyped DEF Typed
    <3>2. <<Plain("set")>> \in Seq(Commands) /\ cmds' = cmds \o <<Plain("set")>>
          BY <2>2, <3>1
    <3>3. ~Resumes(<<Plain("set")>>)
          BY <3>1, ResumesOne
    <3>4. /\ \A c : Has(cmds \o <<Plain("set")>>, c) <=> Has(cmds, c) \/ Has(<<Plain("set")>>, c)
          /\ Resumes(cmds \o <<Plain("set")>>) <=> Resumes(cmds)
          /\ ResumesOnce(cmds) => ResumesOnce(cmds \o <<Plain("set")>>)
          BY ONLY <3>1, <3>2, <3>3, HasJoined, ResumesJoined
    <3> QED
        BY <3>2, <3>4, Zenon
  <2> QED
      BY <2>1, <2>2
<1>4. GdbShown => GdbShown'
      BY <1>2, <1>3 DEF GdbShown, Notices
<1>5. ShellRests => ShellRests'
      BY <1>2, <1>3 DEF ShellRests, Notices
<1> QED
    BY <1>4, <1>5

LEMMA ProcessEventsKeeps == IInv /\ ProcessEvents => IInv'
<1> SUFFICES ASSUME IInv, ProcessEvents PROVE IInv'
    OBVIOUS
<1>1. /\ Idle /\ out \in Seq(Outputs)
      /\ UNCHANGED <<kind, listed, counter, op, cmds, alive, bps, made, prog, sound>>
      BY DEF ProcessEvents, debuggerVars, IInv, Typed
<1>2. op = NoOp /\ op.cmd.cmd = "none" /\ op.text = <<>>
      BY <1>1, IdleOp
<1>3. PICK n \in 1 .. Len(out) :
          /\ out' = SubSeq(out, n + 1, Len(out))
          /\ IF kind = "gdb" THEN ProcessGdbText(SubSeq(out, 1, n))
                             ELSE ProcessShellText(SubSeq(out, 1, n))
          /\ missed' = (missed \/ Unheeded(SubSeq(out, 1, n)))
      BY DEF ProcessEvents
<1>4. PICK p \in Seq(Outputs), r \in Seq(Outputs) :
          /\ out = p \o r /\ out' = r
          /\ IF kind = "gdb" THEN ProcessGdbText(p) ELSE ProcessShellText(p)
          /\ missed' = (missed \/ Unheeded(p))
  <2>1. n \in 0 .. Len(out)
        BY <1>1, <1>3
  <2>2. /\ SubSeq(out, 1, n) \in Seq(Outputs) /\ SubSeq(out, n + 1, Len(out)) \in Seq(Outputs)
        /\ out = SubSeq(out, 1, n) \o SubSeq(out, n + 1, Len(out))
        BY ONLY <1>1, <2>1, ReadCut
  <2> QED
      BY <1>3, <2>2, Zenon
<1>5. /\ \A v : Says(out, v) <=> Says(p, v) \/ Says(r, v)
      /\ \A v \in Notices : Latest(out, v) <=> Latest(r, v) \/ (Silent(r) /\ Latest(p, v))
      BY <1>4, Taken
<1>6. kind = "gdb" => astate' = IF Says(p, "running") THEN "RUNNING"
                                ELSE IF Says(p, "stopped") THEN "STOPPED" ELSE astate
      BY <1>4 DEF ProcessGdbText
<1>7. kind # "gdb" => astate' = IF Says(p, "terminated") THEN "TERMINATED"
                                ELSE IF Says(p, "stopped") THEN "STOPPED" ELSE astate
      BY <1>4 DEF ProcessShellText
<1>8. astate' \in States /\ (astate' = "NONE" => astate = "NONE")
      BY <1>6, <1>7 DEF IInv, Typed, States
<1>9. Typed'
      BY <1>1, <1>4, <1>8 DEF IInv, Typed
<1>10. OfKind'
      BY <1>1, <1>4, <1>5 DEF IInv, OfKind
<1>11. Early' /\ Greeted' /\ Numbers' /\ Kept'
      BY <1>1, <1>2, <1>8 DEF IInv, Early, Greeted, Numbers, Kept, Matched
<1>12. Shown'
  <2> SUFFICES ASSUME alive, ~Lost' PROVE (kind = "gdb" => GdbShown') /\ (kind = "shell" => ShellRests')
      BY <1>1, <1>2 DEF Shown, Looking
  <2>1. ~missed /\ ~Unheeded(p) /\ ~Says(r, "refused")
        BY <1>1, <1>2, <1>4 DEF Lost, Looking
  <2>2. ~Lost
        BY <1>2, <1>5, <2>1, NothingSaid DEF Lost, Looking, Unheeded
  <2>3. ASSUME kind = "gdb" PROVE GdbShown'
    <3>1. GdbShown
          BY <2>2, <2>3 DEF IInv, Shown
    <3>2. \A v \in Notices : Latest(p, v) => Says(p, v)
          BY LatestSays
    <3>3. ~(Says(p, "stopped") /\ Says(p, "running"))
          BY <2>1 DEF Unheeded
    <3>4. Silent(out) => Silent(p) /\ Silent(r)
          BY <1>5 DEF Silent
    <3>5. prog = "running" => Latest(r, "running") \/ (Silent(r) /\ astate' # "STOPPED")
          BY <1>5, <1>6, <2>3, <3>1, <3>2, <3>4 DEF GdbShown, Notices, Silent
    <3>6. prog = "stopped" =>
              \/ Latest(r, "stopped") \/ (Silent(r) /\ astate' = "STOPPED")
              \/ Has(cmds, "run") \/ Has(cmds, "resume") \/ Has(cmds, "exit")
          BY <1>5, <1>6, <2>3, <3>1, <3>2, <3>3, <3>4 DEF GdbShown, Notices, Silent
    <3> QED
        BY <1>1, <1>4, <3>5, <3>6 DEF GdbShown
  <2>4. ASSUME kind = "shell" PROVE ShellRests'
    <3>1. ShellRests
          BY <1>2, <2>2, <2>4 DEF IInv, Shown, Looking
    <3>2. /\ Silent(out) => Silent(r) /\ astate' = astate
          /\ Only(out, "stopped") => Only(r, "stopped") /\ ~Says(p, "terminated")
          BY <1>5, <1>7, <2>4 DEF Silent, Only, Notices
    <3>3. Only(out, "stopped") /\ (Says(out, "stopped") \/ astate = "STOPPED")
              => Says(r, "stopped") \/ astate' = "STOPPED"
          BY <1>5, <1>7, <2>4, <3>2
    <3> QED
        BY <1>1, <1>4, <3>1, <3>2, <3>3 DEF ShellRests
  <2> QED
      BY <2>3, <2>4
<1> QED
    BY <1>9, <1>10, <1>11, <1>12 DEF IInv

-----------------------------------------------------------------------------
(* Commands that read their answers.                                        *)

\* The reading goes on.
LEMMA ReadOn ==
    ASSUME IInv, op # NoOp,
           NEW p \in Seq(Outputs), NEW r \in Seq(Outputs), out = p \o r, out' = r,
           op' \in Ops, op'.cmd = op.cmd, op'.clean = op.clean, op'.text = op.text \o p,
           UNCHANGED <<kind, astate, listed, counter, cmds, alive, bps, made, prog, sound, missed>>
    PROVE  IInv'
<1>1. op.text \in Seq(Outputs) /\ op.cmd.cmd # "none"
      BY DEF IInv, Typed, OfKind, Ops
<1>2. /\ \A v : Says(op'.text, v) <=> Says(op.text, v) \/ Says(p, v)
      /\ \A v : Says(out, v) <=> Says(p, v) \/ Says(r, v)
      /\ \A v \in Notices : Latest(out, v) <=> Latest(r, v) \/ (Silent(r) /\ Latest(p, v))
      /\ \A m : Mentions(op'.text, m) <=> Mentions(op.text, m) /\ Mentions(p, m)
      /\ \A m : Mentions(out, m) <=> Mentions(p, m) /\ Mentions(r, m)
  <2>1. /\ \A v : Says(op.text \o p, v) <=> Says(op.text, v) \/ Says(p, v)
        /\ \A v : Says(p \o r, v) <=> Says(p, v) \/ Says(r, v)
        /\ \A v \in Notices : Latest(p \o r, v) <=> Latest(r, v) \/ (Silent(r) /\ Latest(p, v))
        /\ \A m : Mentions(op.text \o p, m) <=> Mentions(op.text, m) /\ Mentions(p, m)
        /\ \A m : Mentions(p \o r, m) <=> Mentions(p, m) /\ Mentions(r, m)
        BY <1>1, Taken
  <2> QED
      BY <2>1, Zenon
<1>3. Typed' /\ Numbers'
      BY DEF IInv, Typed, Numbers
<1>4. OfKind'
      BY <1>1, <1>2 DEF IInv, OfKind
<1>5. Early' /\ Greeted'
      BY <1>2 DEF IInv, Early, Greeted
<1>6. Kept'
  <2>1. Unspoken => Unspoken'
        BY <1>2 DEF Unspoken
  <2>2. \A b : Spoken(b) => Spoken(b)'
        BY <1>2 DEF Spoken
  <2>3. Setting => Setting'
        BY <2>1, <2>2 DEF Setting
  <2> QED
      BY <2>3 DEF IInv, Kept, Matched
<1>7. Shown'
  <2> SUFFICES ASSUME alive, ~Lost'
               PROVE  /\ kind = "gdb" => GdbShown'
                      /\ kind = "shell" /\ Looking => ShellWaits'
                      /\ kind = "shell" /\ ~Looking /\ op.cmd.cmd # "launch" => ShellRests'
      BY DEF Shown, Looking
  <2>1. ~Lost
        BY <1>2 DEF Lost, Looking, Silent
  <2>2. op.cmd.cmd \in {"break", "evaluate"} => Silent(p)
        BY <1>2 DEF Lost, Silent
  <2>3. ASSUME kind = "gdb" PROVE GdbShown'
    <3>1. GdbShown /\ op.cmd.cmd \in {"break", "evaluate"}
          BY <1>1, <2>1, <2>3 DEF IInv, Shown, OfKind
    <3> QED
        BY <2>2, <3>1, QuietlyRead DEF IInv
  <2>4. ASSUME kind = "shell", ~Looking, op.cmd.cmd # "launch" PROVE ShellRests'
    <3>1. ShellRests /\ op.cmd.cmd \in {"break", "evaluate"}
          BY <1>1, <2>1, <2>4 DEF IInv, Shown, OfKind, Looking
    <3> QED
        BY <2>2, <3>1, QuietlyRead DEF IInv
  <2>5. ASSUME kind = "shell", Looking PROVE ShellWaits'
    <3>1. ShellWaits
          BY <2>1, <2>5 DEF IInv, Shown
    <3>2. /\ Silent(out) => Silent(p) /\ Silent(r)
          /\ Silent(op.text) /\ Silent(p) => Silent(op'.text)
          BY <1>2 DEF Silent
    <3>3. \A w \in {"stopped", "terminated"} :
              Only(out, w) /\ Only(op.text, w) /\ (Says(out, w) \/ Says(op.text, w)) =>
              Only(r, w) /\ Only(op'.text, w) /\ (Says(r, w) \/ Says(op'.text, w))
          BY <1>2 DEF Only
    <3>4. Says(out, "refused") \/ Says(op.text, "refused") =>
              Says(r, "refused") \/ Says(op'.text, "refused")
          BY <1>2
    <3> QED
        BY <3>1, <3>2, <3>3, <3>4 DEF ShellWaits
  <2> QED
      BY <2>3, <2>4, <2>5
<1> QED
    BY <1>3, <1>4, <1>5, <1>6, <1>7 DEF IInv

\* Whatever the command was, it is over.
LEMMA ConcludedBase ==
    ASSUME IInv, op' = NoOp,
           NEW p \in Seq(Outputs), NEW r \in Seq(Outputs), out = p \o r, out' = r,
           astate' \in States \ {"NONE"}, listed' \in Seq(Breakpoints), counter' \in Nat,
           cmds' = cmds \/ cmds' = Append(cmds, Plain("set")),
           UNCHANGED <<kind, alive, bps, made, prog>>
    PROVE  /\ op'.cmd.cmd = "none" /\ op'.text = <<>>
           /\ Typed' /\ OfKind' /\ Early' /\ Greeted' /\ Numbers'
           /\ \A c : c # "set" => (Has(cmds', c) <=> Has(cmds, c))
           /\ \A n : Deletes(cmds', n) <=> Deletes(cmds, n)
<1>1. op' \in Ops /\ op'.cmd.cmd = "none" /\ op'.text = <<>>
  <2>1. Plain("none") \in Commands /\ Plain("none").cmd = "none"
        BY CommandsTyped
  <2> QED
      BY <2>1 DEF NoOp, Ops
<1>2. \A v : Says(out, v) <=> Says(p, v) \/ Says(r, v)
      BY Taken
<1>3. /\ cmds' \in Seq(Commands)
      /\ \A c : c # "set" => (Has(cmds', c) <=> Has(cmds, c))
      /\ \A n : Deletes(cmds', n) <=> Deletes(cmds, n)
  <2>1. cmds \in Seq(Commands)
        BY DEF IInv, Typed
  <2>2. CASE cmds' = cmds
        BY <2>1, <2>2
  <2>3. CASE cmds' = Append(cmds, Plain("set"))
    <3>1. Plain("set") \in Commands /\ Plain("set").cmd = "set"
          BY CommandsTyped
    <3>2. <<Plain("set")>> \in Seq(Commands) /\ cmds' = cmds \o <<Plain("set")>>
          BY <2>1, <2>3, <3>1
    <3>3. /\ \A c : Has(<<Plain("set")>>, c) <=> c = "set"
          /\ \A n : ~Deletes(<<Plain("set")>>, n)
          BY <3>1, HasOne
    <3>4. /\ cmds \o <<Plain("set")>> \in Seq(Commands)
          /\ \A c : Has(cmds \o <<Plain("set")>>, c) <=> Has(cmds, c) \/ Has(<<Plain("set")>>, c)
          /\ \A n : Deletes(cmds \o <<Plain("set")>>, n) <=> Deletes(cmds, n) \/ Deletes(<<Plain("set")>>, n)
          BY ONLY <2>1, <3>2, HasJoined
    <3> QED
        BY <3>2, <3>3, <3>4, Zenon
  <2> QED
      BY <2>2, <2>3
<1>4. Typed'
      BY <1>1, <1>3 DEF IInv, Typed
<1>5. OfKind'
      BY <1>1, <1>2, <1>3 DEF IInv, OfKind
<1>6. Early' /\ Greeted' /\ Numbers'
      BY <1>1 DEF IInv, Early, Greeted, Numbers
<1> QED
    BY <1>1, <1>3, <1>4, <1>5, <1>6

LEMMA EvaluateConcluded ==
    ASSUME IInv, op.cmd.cmd = "evaluate", op' = NoOp,
           NEW p \in Seq(Outputs), NEW r \in Seq(Outputs), out = p \o r, out' = r,
           ConcludeEvaluate(op.text \o p), UNCHANGED <<kind, alive, bps, made, prog>>
    PROVE  IInv'
<1>1. /\ UNCHANGED <<astate, listed, counter, sound, cmds>>
      /\ missed' = (missed \/ SaysAny(op.text \o p, Notices \cup {"refused"}))
      BY DEF ConcludeEvaluate, modelVars, Notices, SaysAny
<1>2. op # NoOp /\ op.text \in Seq(Outputs)
      BY CommandsTyped DEF NoOp, IInv, Typed, Ops
<1>3. astate \in States \ {"NONE"} /\ listed \in Seq(Breakpoints) /\ counter \in Nat
      BY <1>2 DEF IInv, Typed, Early
<1>4. /\ op'.cmd.cmd = "none" /\ op'.text = <<>>
      /\ Typed' /\ OfKind' /\ Early' /\ Greeted' /\ Numbers'
      BY <1>1, <1>3, ConcludedBase
<1>5. Kept'
      BY <1>1, <1>4 DEF IInv, Kept, Matched
<1>6. Shown'
  <2> SUFFICES ASSUME alive, ~Lost' PROVE (kind = "gdb" => GdbShown') /\ (kind = "shell" => ShellRests')
      BY <1>4 DEF Shown, Looking
  <2>1. /\ \A v : Says(op.text \o p, v) <=> Says(op.text, v) \/ Says(p, v)
        /\ \A v : Says(out, v) <=> Says(p, v) \/ Says(r, v)
        BY <1>2, Taken
  <2>2. ~missed /\ ~Says(r, "refused") /\ ~SaysAny(op.text \o p, Notices \cup {"refused"})
        BY <1>1, <1>4 DEF Lost, Looking
  <2>3. Silent(op.text) /\ Silent(p) /\ ~Says(op.text, "refused") /\ ~Says(p, "refused")
        BY <2>1, <2>2 DEF SaysAny, Silent
  <2>4. ~Lost
        BY <2>1, <2>2, <2>3 DEF Lost, Looking
  <2>5. (kind = "gdb" => GdbShown) /\ (kind = "shell" => ShellRests)
        BY <2>4 DEF IInv, Shown, Looking
  <2> QED
      BY <1>1, <2>3, <2>5, QuietlyRead DEF IInv
<1> QED
    BY <1>4, <1>5, <1>6 DEF IInv

LEMMA BreakConcluded ==
    ASSUME IInv, op.cmd.cmd = "break", op' = NoOp,
           NEW p \in Seq(Outputs), NEW r \in Seq(Outputs), out = p \o r, out' = r,
           ConcludeBreak(op.text \o p), UNCHANGED <<kind, alive, bps, made, prog>>
    PROVE  IInv'
<1> DEFINE t == op.text \o p
<1>1. /\ listed' = <<[num |-> Numbered(t), place |-> op.cmd.place]>> \o listed
      /\ counter' \in {counter, counter + 1}
      /\ sound' = (sound /\ op.clean /\ Says(t, "bkpt"))
      /\ missed' = (missed \/ SaysAny(t, Notices \cup {"refused"}))
      /\ cmds' = cmds \/ cmds' = Append(cmds, Plain("set"))
      /\ UNCHANGED astate
      BY DEF ConcludeBreak, Notices, SaysAny
<1>2. /\ op # NoOp /\ op.text \in Seq(Outputs) /\ op.cmd.place \in Where
      /\ counter \in Nat /\ listed \in Seq(Breakpoints)
  <2>1. op # NoOp
        BY CommandsTyped DEF NoOp
  <2>2. op \in Ops /\ counter \in Nat /\ listed \in Seq(Breakpoints)
        BY DEF IInv, Typed
  <2>3. op.cmd \in Commands /\ op.text \in Seq(Outputs)
        BY <2>2 DEF Ops
  <2> QED
      BY <2>1, <2>2, <2>3 DEF Commands
<1>3. /\ t \in Seq(Outputs)
      /\ \A v : Says(t, v) <=> Says(op.text, v) \/ Says(p, v)
      /\ \A v : Says(out, v) <=> Says(p, v) \/ Says(r, v)
      /\ \A m : Mentions(t, m) <=> Mentions(op.text, m) /\ Mentions(p, m)
      /\ \A m : Mentions(out, m) <=> Mentions(p, m) /\ Mentions(r, m)
      BY <1>2, Taken
<1> HIDE DEF t
<1>4. Number(t) \in Nat /\ Numbered(t) \in Nat
      BY <1>2, <1>3, NumberMentioned DEF Numbered
<1>5. PICK b \in Breakpoints : b = [num |-> Numbered(t), place |-> op.cmd.place]
      BY <1>2, <1>4 DEF Breakpoints
<1>6. /\ <<b>> \in Seq(Breakpoints) /\ listed' = <<b>> \o listed
      BY <1>1, <1>5
<1>7. counter' \in Nat /\ listed' \in Seq(Breakpoints) /\ astate' \in States \ {"NONE"}
      BY <1>1, <1>2, <1>6 DEF IInv, Typed, Early
<1>8. /\ op'.cmd.cmd = "none" /\ op'.text = <<>>
      /\ Typed' /\ OfKind' /\ Early' /\ Greeted' /\ Numbers'
      /\ \A c : c # "set" => (Has(cmds', c) <=> Has(cmds, c))
      /\ \A n : Deletes(cmds', n) <=> Deletes(cmds, n)
      BY <1>1, <1>7, ConcludedBase
<1>9. ASSUME alive, sound' PROVE NumbersOf(listed') /\ ~Has(cmds', "break") /\ Matched'
  <2>1. sound /\ op.clean /\ Says(t, "bkpt")
        BY <1>1, <1>9, Zenon
  <2>2. NumbersOf(listed) /\ Setting
        BY <1>9, <2>1 DEF IInv, Kept
  <2>3. ~Unspoken
        BY <1>3, <2>1 DEF Unspoken
  <2>4. PICK d \in bps : cmds = <<>> /\ Spoken(d)
        BY <2>2, <2>3 DEF Setting
  <2>5. /\ d.place = op.cmd.place /\ d.num = made /\ ToSet(listed) = bps \ {d}
        /\ Mentions(t, made) /\ d \in Breakpoints /\ made # 0
        BY <1>3, <2>4 DEF Spoken, IInv, Typed, Numbers
  <2>6. Numbered(t) = made
        BY <1>3, <2>1, <2>5, NumberMentioned DEF Numbered
  <2>7. d = b
        BY <1>5, <2>5, <2>6 DEF Breakpoints
  <2>8. /\ \A i \in DOMAIN listed' : listed'[i] = b \/ \E k \in DOMAIN listed : listed'[i] = listed[k]
        /\ \A i \in DOMAIN listed : \E k \in DOMAIN listed' : listed'[k] = listed[i]
        /\ \E k \in DOMAIN listed' : listed'[k] = b
        /\ \A i, j \in DOMAIN listed' :
               \/ i = j
               \/ \E k \in DOMAIN listed : listed'[i] = listed[k] /\ listed'[j] = b
               \/ \E k \in DOMAIN listed : listed'[j] = listed[k] /\ listed'[i] = b
               \/ \E k, m \in DOMAIN listed :
                      listed'[i] = listed[k] /\ listed'[j] = listed[m] /\ (k = m => i = j)
    <3> DEFINE a == <<b>>
               u == a \o listed
    <3>1. a \in Seq(Breakpoints) /\ DOMAIN a = {1} /\ Len(a) = 1 /\ a[1] = b
          BY <1>6
    <3> HIDE DEF a
    <3>2. /\ \A i \in DOMAIN a : i \in DOMAIN u /\ u[i] = a[i]
          /\ \A i \in DOMAIN listed : Len(a) + i \in DOMAIN u /\ u[Len(a) + i] = listed[i]
          /\ \A k \in DOMAIN u : k \in DOMAIN a \/ \E i \in DOMAIN listed : k = Len(a) + i
      <4>1. a \in Seq(Breakpoints) /\ listed \in Seq(Breakpoints)
            BY <1>2, <3>1
      <4> QED
          BY ONLY <4>1, JoinedPlaces
    <3> HIDE DEF u
    <3>3. /\ 1 \in DOMAIN u /\ u[1] = b
          /\ \A i \in DOMAIN listed : 1 + i \in DOMAIN u /\ u[1 + i] = listed[i]
          /\ \A k \in DOMAIN u : k = 1 \/ \E i \in DOMAIN listed : k = 1 + i
          BY <3>1, <3>2, Zenon
    <3>4. /\ \A i \in DOMAIN u : u[i] = b \/ \E k \in DOMAIN listed : u[i] = listed[k]
          /\ \A i \in DOMAIN listed : \E k \in DOMAIN u : u[k] = listed[i]
          /\ \E k \in DOMAIN u : u[k] = b
          BY <3>3, ZenonT(40)
    <3>5. ASSUME NEW i \in DOMAIN u, NEW j \in DOMAIN u
          PROVE  \/ i = j
                 \/ \E k \in DOMAIN listed : u[i] = listed[k] /\ u[j] = b
                 \/ \E k \in DOMAIN listed : u[j] = listed[k] /\ u[i] = b
                 \/ \E k, m \in DOMAIN listed :
                        u[i] = listed[k] /\ u[j] = listed[m] /\ (k = m => i = j)
          BY <3>3, <3>5
    <3>6. listed' = u
          BY <1>6 DEF u, a
    <3> QED
        BY <3>4, <3>5, <3>6
  <2>9. /\ \A k \in DOMAIN listed : listed[k] \in bps /\ listed[k].num # b.num
        /\ \A x \in bps : x = b \/ \E k \in DOMAIN listed : listed[k] = x
    <3>1. ToSet(listed) = bps \ {b} /\ b \in bps
          BY <2>5, <2>7
    <3>2. \A k \in DOMAIN listed : listed[k] \in bps /\ listed[k] # b
          BY <3>1 DEF ToSet
    <3>3. \A x, y \in bps : x.num = y.num => x = y
          BY DEF IInv, Numbers
    <3> QED
        BY <3>1, <3>2, <3>3 DEF ToSet
  <2>10. NumbersOf(listed')
        BY <2>2, <2>8, <2>9 DEF NumbersOf
  <2>11. ~Has(cmds', "break") /\ \A n : ~Deletes(cmds', n)
    <3>1. (\A c : ~Has(<<>>, c)) /\ \A n : ~Deletes(<<>>, n)
          BY DEF Has, Deletes
    <3>2. ~Has(cmds, "break") /\ \A n : ~Deletes(cmds, n)
          BY <2>4, <3>1, Zenon
    <3> QED
        BY <1>8, <3>2
  <2>12. ToSet(listed') = bps
    <3>1. \A i \in DOMAIN listed' : listed'[i] \in bps
          BY <2>4, <2>7, <2>8, <2>9
    <3>2. \A x \in bps : \E i \in DOMAIN listed' : listed'[i] = x
          BY <2>8, <2>9
    <3> QED
        BY <3>1, <3>2 DEF ToSet
  <2> QED
      BY <2>10, <2>11, <2>12 DEF Matched
<1>10. Kept'
      BY <1>8, <1>9 DEF Kept
<1>11. Shown'
  <2> SUFFICES ASSUME alive, ~Lost' PROVE (kind = "gdb" => GdbShown') /\ (kind = "shell" => ShellRests')
      BY <1>8 DEF Shown, Looking
  <2>1. ~missed /\ ~Says(r, "refused") /\ ~SaysAny(t, Notices \cup {"refused"})
        BY <1>1, <1>8 DEF Lost, Looking
  <2>2. Silent(op.text) /\ Silent(p) /\ ~Says(op.text, "refused") /\ ~Says(p, "refused")
        BY <1>3, <2>1 DEF SaysAny, Silent
  <2>3. ~Lost
        BY <1>3, <2>1, <2>2 DEF Lost, Looking
  <2>4. (kind = "gdb" => GdbShown) /\ (kind = "shell" => ShellRests)
        BY <2>3 DEF IInv, Shown, Looking
  <2> QED
      BY <1>1, <2>2, <2>4, QuietlyRead DEF IInv
<1> QED
    BY <1>8, <1>10, <1>11 DEF IInv

\* The shell's continue and steps: what was waited for is shown, or still on its way.
LEMMA ResumeConcluded ==
    ASSUME IInv, Looking, op' = NoOp,
           NEW p \in Seq(Outputs), NEW r \in Seq(Outputs), out = p \o r, out' = r,
           ConcludeContinue(op.text \o p) \/ ConcludeStep(op.text \o p),
           UNCHANGED <<kind, alive, bps, made, prog>>
    PROVE  IInv'
<1> DEFINE t == op.text \o p
<1>1. /\ UNCHANGED <<listed, counter, sound, cmds>>
      /\ astate' \in States \ {"NONE"}
      /\ missed' = FALSE => ~missed /\ op.clean
      BY DEF ConcludeContinue, ConcludeStep, States
<1>2. op # NoOp /\ op.text \in Seq(Outputs) /\ op.cmd.cmd \in {"continue", "step"}
      BY CommandsTyped DEF NoOp, IInv, Typed, Ops, Looking
<1>3. kind = "shell"
      BY <1>2 DEF IInv, OfKind, Typed, Kinds
<1>4. listed \in Seq(Breakpoints) /\ counter \in Nat
      BY DEF IInv, Typed
<1>5. /\ op'.cmd.cmd = "none" /\ op'.text = <<>>
      /\ Typed' /\ OfKind' /\ Early' /\ Greeted' /\ Numbers'
      BY <1>1, <1>4, ConcludedBase
<1>6. Kept'
      BY <1>1, <1>2, <1>5 DEF IInv, Kept, Matched
<1>7. Shown'
  <2> SUFFICES ASSUME alive, ~Lost' PROVE ShellRests'
      BY <1>3, <1>5 DEF Shown, Looking
  <2>1. /\ t \in Seq(Outputs)
        /\ \A v : Says(t, v) <=> Says(op.text, v) \/ Says(p, v)
        /\ \A v : Says(out, v) <=> Says(p, v) \/ Says(r, v)
        BY <1>2, Taken
  <2>2. ~missed' /\ ~Says(r, "refused")
        BY <1>5 DEF Lost, Looking
  <2>3. /\ ~Says(t, "refused") \/ Says(t, "stopped")
        /\ ~missed /\ op.clean
        /\ \/ /\ ~Says(t, "refused") /\ ~Says(t, "bkpt")
              /\ ~(Says(t, "stopped") /\ Says(t, "terminated"))
              /\ astate' = IF Says(t, "stopped") THEN "STOPPED"
                           ELSE IF Says(t, "terminated") THEN "TERMINATED" ELSE "RUNNING"
           \/ Says(t, "stopped") /\ ~Says(t, "terminated") /\ astate' = "STOPPED"
        BY <2>2 DEF ConcludeContinue, ConcludeStep, SaysAny
  <2> HIDE DEF t
  <2>4. ShellWaits
        BY <1>2, <1>3, <2>3 DEF IInv, Shown, Lost, Looking
  <2>5. Silent(out) /\ Silent(op.text) => Silent(t) /\ Silent(r)
        BY <2>1 DEF Silent
  <2>6. CASE cmds = <<op.cmd>> /\ prog # "running" /\ Silent(out) /\ Silent(op.text)
    <3>1. Silent(r) /\ astate' # "STOPPED"
          BY <2>3, <2>5, <2>6 DEF Silent, Notices
    <3>2. ResumesOnce(cmds)
      <4>1. op.cmd \in Commands
            BY DEF IInv, Typed, Ops
      <4>2. ResumesOnce(<<op.cmd>>)
            BY <1>2, <4>1, ResumesOne
      <4> QED
          BY <2>6, <4>2, Zenon
    <3> QED
        BY <1>1, <2>6, <3>1, <3>2 DEF ShellRests
  <2>7. CASE cmds = <<>> /\ prog = "running" /\ Silent(out) /\ Silent(op.text)
    <3>1. Silent(r) /\ astate' # "STOPPED"
          BY <2>3, <2>5, <2>7 DEF Silent, Notices
    <3>2. ~Resumes(cmds)
          BY <2>7 DEF Resumes, Has
    <3> QED
        BY <1>1, <2>7, <3>1, <3>2 DEF ShellRests
  <2>8. CASE /\ cmds = <<>>
             /\ \E w \in {"stopped", "terminated"} :
                   /\ prog = (IF w = "stopped" THEN "stopped" ELSE "ended")
                   /\ Only(out, w) /\ Only(op.text, w) /\ (Says(out, w) \/ Says(op.text, w))
    <3>1. ~Resumes(cmds) /\ prog \in {"stopped", "ended"}
          BY <2>8 DEF Resumes, Has
    <3>2. prog = "stopped" => Only(out, "stopped") /\ (Says(out, "stopped") \/ Says(op.text, "stopped"))
          BY <2>8
    <3>3. prog = "stopped" => Only(r, "stopped") /\ (Says(r, "stopped") \/ Says(t, "stopped"))
          BY <2>1, <3>2 DEF Only
    <3>4. Says(t, "stopped") => astate' = "STOPPED"
          BY <2>3
    <3> QED
        BY <1>1, <3>1, <3>3, <3>4 DEF ShellRests
  <2>9. CASE /\ cmds = <<>> /\ prog # "running" /\ Silent(out) /\ Silent(op.text)
             /\ Says(out, "refused") \/ Says(op.text, "refused")
    <3>1. Says(t, "refused") /\ ~Says(t, "stopped")
          BY <2>1, <2>2, <2>5, <2>9 DEF Silent, Notices
    <3> QED
        BY <2>3, <3>1
  <2> QED
      BY <2>4, <2>6, <2>7, <2>8, <2>9 DEF ShellWaits
<1> QED
    BY <1>5, <1>6, <1>7 DEF IInv

LEMMA LaunchConcluded ==
    ASSUME IInv, op.cmd.cmd = "launch", op' = NoOp,
           NEW p \in Seq(Outputs), NEW r \in Seq(Outputs), out = p \o r, out' = r,
           ConcludeLaunch(op.text \o p), UNCHANGED <<kind, alive, bps, made, prog>>
    PROVE  IInv'
<1>1. /\ UNCHANGED <<listed, counter, sound, missed, cmds>>
      /\ astate' = "STOPPED" /\ astate' \in States \ {"NONE"}
      BY DEF ConcludeLaunch, States
<1>2. kind = "shell"
      BY DEF IInv, OfKind, Typed, Kinds
<1>3. listed \in Seq(Breakpoints) /\ counter \in Nat
      BY DEF IInv, Typed
<1>4. /\ op'.cmd.cmd = "none" /\ op'.text = <<>>
      /\ Typed' /\ OfKind' /\ Early' /\ Greeted' /\ Numbers'
      BY <1>1, <1>3, ConcludedBase
<1>5. Kept'
      BY <1>1, <1>4 DEF IInv, Kept, Matched
<1>6. Shown'
  <2> SUFFICES ASSUME alive PROVE ShellRests'
      BY <1>2, <1>4 DEF Shown, Looking
  <2>1. /\ \A c : Has(cmds, c) => c = "empty"
        /\ prog = "stopped" /\ \A w \in Notices : ~Says(out, w)
        BY DEF IInv, Greeted
  <2>2. ~Resumes(cmds)
        BY <2>1 DEF Resumes
  <2>3. \A v : Says(out, v) <=> Says(p, v) \/ Says(r, v)
        BY Taken
  <2>4. Only(r, "stopped")
        BY <2>1, <2>3 DEF Only
  <2> QED
      BY <1>1, <2>1, <2>2, <2>4 DEF ShellRests
<1> QED
    BY <1>4, <1>5, <1>6 DEF IInv

LEMMA ConcludeKeeps ==
    ASSUME IInv,
           NEW p \in Seq(Outputs), NEW r \in Seq(Outputs), out = p \o r, out' = r,
           Conclude(op.text \o p), UNCHANGED <<kind, alive, bps, made, prog>>
    PROVE  IInv'
<1> DEFINE t == op.text \o p
<1>1. op' = NoOp
      BY DEF Conclude
<1>2. CASE op.cmd.cmd = "break" /\ ConcludeBreak(t)
      BY <1>1, <1>2, BreakConcluded
<1>3. CASE op.cmd.cmd = "evaluate" /\ ConcludeEvaluate(t)
      BY <1>1, <1>3, EvaluateConcluded
<1>4. CASE Looking /\ (ConcludeContinue(t) \/ ConcludeStep(t))
      BY <1>1, <1>4, ResumeConcluded
<1>5. CASE op.cmd.cmd = "launch" /\ ConcludeLaunch(t)
      BY <1>1, <1>5, LaunchConcluded
<1> HIDE DEF t
<1>6. Conclude(t)
      BY DEF t
<1> QED
    BY <1>2, <1>3, <1>4, <1>5, <1>6 DEF Conclude, Looking

LEMMA AdapterReadsKeep == IInv /\ AdapterReads => IInv'
<1> SUFFICES ASSUME IInv, AdapterReads PROVE IInv'
    OBVIOUS
<1>1. /\ op # NoOp /\ UNCHANGED <<kind, alive, bps, made, prog>>
      /\ op \in Ops /\ op.text \in Seq(Outputs) /\ out \in Seq(Outputs)
      BY DEF AdapterReads, ReadSome, ReadNothing, debuggerVars, IInv, Typed, Ops
<1>2. CASE ReadSome
  <2>1. PICK n \in 1 .. Len(out) :
            /\ out' = SubSeq(out, n + 1, Len(out))
            /\ \/ Conclude(op.text \o SubSeq(out, 1, n))
               \/ op' = [op EXCEPT !.text = op.text \o SubSeq(out, 1, n)] /\ GoOn
        BY <1>2 DEF ReadSome
  <2>2. n \in 0 .. Len(out)
        BY <1>1, <2>1
  <2>3. /\ SubSeq(out, 1, n) \in Seq(Outputs) /\ SubSeq(out, n + 1, Len(out)) \in Seq(Outputs)
        /\ out = SubSeq(out, 1, n) \o SubSeq(out, n + 1, Len(out))
        BY ONLY <1>1, <2>2, ReadCut
  <2>4. PICK p \in Seq(Outputs), r \in Seq(Outputs) :
            /\ out = p \o r /\ out' = r
            /\ \/ Conclude(op.text \o p)
               \/ op' = [op EXCEPT !.text = op.text \o p] /\ GoOn
        BY <2>1, <2>3, Zenon
  <2>5. CASE Conclude(op.text \o p)
        BY <1>1, <2>4, <2>5, ConcludeKeeps
  <2>6. CASE op' = [op EXCEPT !.text = op.text \o p] /\ GoOn
    <3>1. op.text \o p \in Seq(Outputs)
          BY <1>1
    <3>2. op' \in Ops /\ op'.cmd = op.cmd /\ op'.clean = op.clean /\ op'.text = op.text \o p
          BY <1>1, <2>6, <3>1 DEF Ops
    <3> QED
        BY <1>1, <2>4, <2>6, <3>2, ReadOn DEF GoOn, modelVars
  <2> QED
      BY <2>4, <2>5, <2>6
<1>3. CASE ReadNothing
  <2>1. /\ out = <<>> /\ out' = out
        /\ Conclude(op.text) \/ (op' = [op EXCEPT !.left = @ - 1] /\ GoOn)
        BY <1>3 DEF ReadNothing
  <2>2. <<>> \in Seq(Outputs) /\ op.text \o <<>> = op.text /\ out = <<>> \o <<>> /\ out' = <<>>
        BY <1>1, <2>1
  <2>3. CASE Conclude(op.text)
    <3>1. Conclude(op.text \o <<>>)
          BY <2>2, <2>3, Zenon
    <3> QED
        BY <1>1, <2>2, <3>1, ConcludeKeeps
  <2>4. CASE op' = [op EXCEPT !.left = @ - 1] /\ GoOn
    <3>1. op' \in Ops /\ op'.cmd = op.cmd /\ op'.clean = op.clean /\ op'.text = op.text \o <<>>
          BY <1>1, <2>2, <2>4 DEF Ops
    <3> QED
        BY <1>1, <2>2, <2>4, <3>1, ReadOn DEF GoOn, modelVars
  <2> QED
      BY <2>1, <2>3, <2>4
<1> QED
    BY <1>2, <1>3 DEF AdapterReads

-----------------------------------------------------------------------------
(* The theorems.                                                            *)

LEMMA InitHolds == Init => IInv
<1> SUFFICES ASSUME Init PROVE IInv
    OBVIOUS
<1>1. op \in Ops /\ op = NoOp /\ op.cmd.cmd = "none" /\ op.text = <<>>
  <2>1. Plain("none") \in Commands /\ Plain("none").cmd = "none"
        BY CommandsTyped
  <2> QED
      BY <2>1 DEF Init, NoOp, Ops
<1>2. Typed
      BY <1>1 DEF Init, Typed, States, Breakpoints
<1>3. OfKind
  <2>1. ~Has(cmds, "continue") /\ ~Has(cmds, "step") /\ ~Has(cmds, "run") /\ ~Has(cmds, "resume")
        BY DEF Init, Has
  <2>2. ~Says(out, "terminated") /\ ~Says(out, "running")
        BY DEF Init, Says
  <2> QED
      BY <1>1, <2>1, <2>2 DEF OfKind
<1>4. Early /\ Greeted /\ Numbers /\ Kept /\ Shown
      BY <1>1 DEF Init, Early, Greeted, Numbers, Kept, Shown
<1> QED
    BY <1>2, <1>3, <1>4 DEF IInv

LEMMA StepKeeps == IInv /\ [Next]_vars => IInv'
<1> SUFFICES ASSUME IInv, [Next]_vars PROVE IInv'
    OBVIOUS
<1>1. CASE AdapterInit \/ GdbLaunch \/ ShellLaunch \/ Disconnect
      BY <1>1, AdapterInitKeeps, GdbLaunchKeeps, ShellLaunchKeeps, DisconnectKeeps
<1>2. CASE (\E p \in Places : SetBreakpoint(p)) \/ Evaluate \/ ShellContinue \/ ShellStep
      BY <1>2, AskingKeeps
<1>3. CASE RemoveBreakpoint \/ ClearAllBreakpoints
      BY <1>3, RemoveBreakpointKeeps, ClearAllKeeps
<1>4. CASE GdbContinue \/ GdbStep \/ GdbPause
      BY <1>4, GdbResumesKeep, GdbPauseKeeps
<1>5. CASE ProcessEvents
      BY <1>5, ProcessEventsKeeps
<1>6. CASE AdapterReads
      BY <1>6, AdapterReadsKeep
<1>7. CASE Debugger \/ ProgramStops \/ DebuggerDies
      BY <1>7, DebuggerKeeps, ProgramStopsKeeps, DebuggerDiesKeeps
<1>8. CASE UNCHANGED vars
  <2>1. UNCHANGED <<kind, astate, listed, counter, op, cmds, out, alive, bps, made, prog, sound, missed>>
        BY <1>8 DEF vars
  <2>2. Typed' /\ OfKind' /\ Early' /\ Greeted' /\ Numbers'
        BY <2>1 DEF IInv, Typed, OfKind, Early, Greeted, Numbers
  <2>3. Kept'
        BY <2>1 DEF IInv, Kept, Matched, Setting, Unspoken, Spoken
  <2>4. Shown'
        BY <2>1 DEF IInv, Shown, Lost, Looking, GdbShown, ShellWaits, ShellRests
  <2> QED
      BY <2>2, <2>3, <2>4 DEF IInv
<1> QED
    BY <1>1, <1>2, <1>3, <1>4, <1>5, <1>6, <1>7, <1>8 DEF Next

LEMMA ListedHolds == IInv => ListedAreSet
<1> SUFFICES ASSUME IInv, Quiet, sound PROVE ToSet(listed) = bps
    BY DEF ListedAreSet
<1>1. alive /\ cmds = <<>> /\ op.cmd.cmd = "none"
      BY CommandsTyped DEF Quiet, NoOp
<1>2. Matched
      BY <1>1 DEF IInv, Kept
<1>3. \A n : ~Deletes(cmds, n)
      BY <1>1 DEF Deletes
<1> QED
    BY <1>2, <1>3 DEF Matched

LEMMA ShownTrue == IInv => ShownHolds
<1> SUFFICES ASSUME IInv, Quiet, ~missed
             PROVE  /\ astate = "STOPPED" => prog # "running"
                    /\ prog = "stopped" => astate = "STOPPED"
    BY DEF ShownHolds
<1>1. alive /\ cmds = <<>> /\ out = <<>> /\ op.cmd.cmd = "none" /\ op.text = <<>>
      BY CommandsTyped DEF Quiet, NoOp
<1>2. /\ \A v : ~Says(out, v)
      /\ \A c : ~Has(cmds, c)
      /\ \A v \in Notices : ~Latest(out, v)
      /\ ~Resumes(cmds) /\ ~ResumesOnce(cmds)
      BY <1>1 DEF Says, Has, Latest, Resumes, ResumesOnce
<1>3. ~Lost /\ ~Looking
      BY <1>1, <1>2 DEF Lost, Looking, Says
<1>4. (kind = "gdb" => GdbShown) /\ (kind = "shell" => ShellRests) /\ kind \in {"gdb", "shell"}
      BY <1>1, <1>3 DEF IInv, Shown, Typed, Kinds
<1> QED
    BY <1>2, <1>4 DEF GdbShown, ShellRests, Notices

\* The breakpoints shown are those the debugger has, whatever the debugger says and when,
\* as long as each was set undisturbed and granted (gdb_set_breakpoint,
\* shell_set_breakpoint, gdb_remove_breakpoint, shell_remove_breakpoint).
THEOREM ShownBreakpointsAreSet == Spec => []ListedAreSet
<1>1. Init => IInv
      BY InitHolds
<1>2. IInv /\ [Next]_vars => IInv'
      BY StepKeeps
<1>3. IInv => ListedAreSet
      BY ListedHolds
<1> QED
    BY <1>1, <1>2, <1>3, PTL DEF Spec

\* Once all is read the state shown is the program's, unless something was read that the
\* reader does not look for (gdb_process_events, shell_process_events, shell_continue and
\* the steps).
THEOREM ShownStateIsTrue == Spec => []ShownHolds
<1>1. Init => IInv
      BY InitHolds
<1>2. IInv /\ [Next]_vars => IInv'
      BY StepKeeps
<1>3. IInv => ShownHolds
      BY ShownTrue
<1> QED
    BY <1>1, <1>2, <1>3, PTL DEF Spec
===============================================================================
