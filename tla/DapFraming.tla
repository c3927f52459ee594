----------------------------- MODULE DapFraming -----------------------------
(***************************************************************************)
(* How the DAP client cuts the bytes of a debugger into messages:           *)
(* dap_client_process_messages and parse_messages_from_buffer of            *)
(* src/src/dap_client.c, over the byte queue that IoBuffer implements.      *)
(*                                                                          *)
(* The debugger (external) writes a message as a header line, an empty line *)
(* and a body without a newline; what matters of the bytes is to which part *)
(* of which message they belong, so a token stands for each part and a body *)
(* is a few of them.  A read may end anywhere, and what the debugger prints *)
(* on stderr is put into the same buffer.                                   *)
(***************************************************************************)
EXTENDS Integers, Sequences

CONSTANTS
    BodySize,       \* the length of a body, in tokens
    HeaderRoom,     \* the longest line that fits char header[256]
    MaxMessages,    \* bound: messages the debugger writes
    MaxNoise        \* bound: writes of the debugger to stderr

ASSUME FramingAssumption ==
    /\ BodySize \in Nat \ {0} /\ HeaderRoom \in Nat \ {0, 1}
    /\ MaxMessages \in Nat /\ MaxNoise \in Nat

VARIABLES
    sent,       \* messages the debugger has written
    noise,      \* its writes to stderr
    stdout,     \* unread bytes of its stdout pipe
    stderr,     \* those not yet read
    buffer,     \* client->read_buffer
    parsing,    \* inside parse_messages_from_buffer
    processed,  \* the messages handed to process_message, in order
    clean       \* history: every read so far ended well, and nothing came from stderr

vars == <<sent, noise, stdout, stderr, buffer, parsing, processed, clean>>

-----------------------------------------------------------------------------
Length(m) == [part |-> "length", of |-> m, at |-> 0]     \* "Content-Length: n"
LineEnd(m) == [part |-> "lineEnd", of |-> m, at |-> 0]   \* the end of that line
Blank(m) == [part |-> "blank", of |-> m, at |-> 0]       \* the empty line
Body(m, i) == [part |-> "body", of |-> m, at |-> i]
Noise == {[part |-> p, of |-> 0, at |-> 0] :            \* stderr: a line, or text without its end
              p \in {"noise", "noiseText"}}

Header(m) == <<Length(m), LineEnd(m), Blank(m)>>
BodyOf(m) == [i \in 1 .. BodySize |-> Body(m, i)]

EndsLine(x) == x.part \in {"lineEnd", "blank", "noise"}

\* The first line of s has n tokens.
LineIs(s, n) ==
    /\ n \in DOMAIN s /\ EndsLine(s[n])
    /\ \A k \in 1 .. (n - 1) : ~EndsLine(s[k])

Drop(s, n) == SubSeq(s, n + 1, Len(s))

\* A read that stops here loses nothing: between messages, or inside a header line.
GoodEnd(x) == x.part = "length" \/ (x.part = "body" /\ x.at = BodySize)

Init ==
    /\ sent = 0 /\ noise = 0
    /\ stdout = <<>> /\ stderr = 0
    /\ buffer = <<>> /\ parsing = FALSE
    /\ processed = <<>>
    /\ clean = TRUE

-----------------------------------------------------------------------------
(* The debugger.                                                            *)

WriteMessage ==
    /\ sent < MaxMessages
    /\ sent' = sent + 1
    /\ stdout' = stdout \o Header(sent + 1) \o BodyOf(sent + 1)
    /\ UNCHANGED <<noise, stderr, buffer, parsing, processed, clean>>

PrintError ==
    /\ noise < MaxNoise
    /\ noise' = noise + 1
    /\ stderr' = stderr + 1
    /\ UNCHANGED <<sent, stdout, buffer, parsing, processed, clean>>

-----------------------------------------------------------------------------
(* dap_client_process_messages: a read, then the parser over the buffer.    *)

ReadStdout ==
    /\ ~parsing
    /\ \E n \in 1 .. Len(stdout) :
          /\ buffer' = buffer \o SubSeq(stdout, 1, n)
          /\ stdout' = Drop(stdout, n)
          /\ clean' = (clean /\ GoodEnd(stdout[n]))
    /\ parsing' = TRUE
    /\ UNCHANGED <<sent, noise, stderr, processed>>

ReadStderr ==
    /\ ~parsing /\ stderr > 0
    /\ \E x \in Noise : buffer' = Append(buffer, x)
    /\ stderr' = stderr - 1
    /\ clean' = FALSE
    /\ parsing' = TRUE
    /\ UNCHANGED <<sent, noise, stdout, processed>>

-----------------------------------------------------------------------------
(* One turn of parse_messages_from_buffer.                                  *)

\* No complete line, or one too long to be read at all: the parser gives up until the
\* next read.
NoLine ==
    /\ parsing
    /\ \A n \in 1 .. HeaderRoom : ~LineIs(buffer, n)
    /\ parsing' = FALSE
    /\ UNCHANGED <<sent, noise, stdout, stderr, buffer, processed, clean>>

\* A line that does not begin with a length is dropped.
BadLine ==
    /\ parsing
    /\ \E n \in 1 .. HeaderRoom :
          LineIs(buffer, n) /\ buffer[1].part # "length" /\ buffer' = Drop(buffer, n)
    /\ UNCHANGED <<sent, noise, stdout, stderr, parsing, processed, clean>>

\* The line after the length is read into char empty[4]: only an empty one fits
\* (a stderr line of one or two characters would, too).
AfterBlank(s) == IF s # <<>> /\ s[1].part = "blank" THEN Tail(s) ELSE s

\* The announced number of bytes is there and is the body of m: only then is it JSON.
IsBody(s, m) == Len(s) >= BodySize /\ SubSeq(s, 1, BodySize) = BodyOf(m)

\* Mutant: the length is looked at, and only taken once the body is there, but the rest
\* of the buffer is thrown away with it.
GoodLineClears ==
    /\ parsing
    /\ \E n \in 1 .. HeaderRoom :
          /\ LineIs(buffer, n) /\ buffer[1].part = "length"
          /\ LET rest == AfterBlank(Drop(buffer, n))
             IN  /\ buffer' = <<>>
                 /\ parsing' = FALSE
                 /\ processed' = IF IsBody(rest, buffer[1].of)
                                 THEN Append(processed, buffer[1].of) ELSE processed
    /\ UNCHANGED <<sent, noise, stdout, stderr, clean>>

\* Mutant: the body is looked at and left in the buffer with its header.
GoodLinePeeks ==
    /\ parsing
    /\ \E n \in 1 .. HeaderRoom :
          /\ LineIs(buffer, n) /\ buffer[1].part = "length"
          /\ LET rest == AfterBlank(Drop(buffer, n))
             IN  /\ IsBody(rest, buffer[1].of)
                 /\ processed' = Append(processed, buffer[1].of)
    /\ parsing' = FALSE
    /\ UNCHANGED <<sent, noise, stdout, stderr, buffer, clean>>

\* A header line is consumed at once; if the body is not all there the parser gives up,
\* else it takes as many bytes as announced and hands them over if they are a message.
GoodLine ==
    /\ parsing
    /\ \E n \in 1 .. HeaderRoom :
          /\ LineIs(buffer, n) /\ buffer[1].part = "length"
          /\ LET rest == AfterBlank(Drop(buffer, n))
             IN  \/ /\ Len(rest) < BodySize
                    /\ buffer' = rest
                    /\ parsing' = FALSE
                    /\ UNCHANGED processed
                 \/ /\ Len(rest) >= BodySize
                    /\ buffer' = Drop(rest, BodySize)
                    /\ processed' = IF IsBody(rest, buffer[1].of)
                                    THEN Append(processed, buffer[1].of) ELSE processed
                    /\ UNCHANGED parsing
    /\ UNCHANGED <<sent, noise, stdout, stderr, clean>>

ParseStep == NoLine \/ BadLine \/ GoodLine

-----------------------------------------------------------------------------
Next == WriteMessage \/ PrintError \/ ReadStdout \/ ReadStderr \/ ParseStep

Spec == Init /\ [][Next]_vars

-----------------------------------------------------------------------------
(* Properties.                                                              *)

\* However the bytes are cut and whatever stderr puts between them, the client handles
\* only messages the debugger wrote, each at most once and in the order written; a body
\* is never made of the parts of two (parse_messages_from_buffer).
HandledInOrder ==
    /\ \A i \in DOMAIN processed : processed[i] <= sent
    /\ \A i, j \in DOMAIN processed : i < j => processed[i] < processed[j]

\* As long as every read ends between messages or inside a header line, every message
\* read is handled, several in one read and a header in two included.
CleanIsComplete ==
    clean /\ ~parsing =>
        /\ \A m \in 1 .. sent :
              (\E i \in DOMAIN processed : processed[i] = m)
                  \/ (\E k \in DOMAIN stdout : stdout[k] = Body(m, BodySize))
        /\ buffer # <<>> => \E m \in 1 .. sent : buffer = <<Length(m)>>

\* dap_client.c:367 returns for want of data "Need more data": when all of it has been
\* read, every message has been handled.
NothingLost == stdout = <<>> /\ ~parsing => Len(processed) = sent
=============================================================================
