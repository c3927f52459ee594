---------------------------- MODULE MCEventLoop ----------------------------
(* What an event loop of the core is made of, for TLC, one part at a time: they share     *)
(* nothing but the interruption of poll by a handler, which IoHandler has as              *)
(* PollInterrupted, and the queue of bytes, which IoBuffer is shown to be and DapFraming  *)
(* works on.                                                                              *)
(*   signals      two of them: one can be pending while another is handled; a pipe of one *)
(*                byte, which the second overflows                                        *)
(*   descriptors  three, interchangeable, and room for all: a callback can remove its     *)
(*                own, another's, and add                                                 *)
(*   buffer       a letter and a newline: what is written is arbitrary, so a misplaced    *)
(*                byte shows where the two differ; a memory of 3 that can be grown once   *)
(*                to 6                                                                    *)
(*   framing      bodies of three parts, so that a read can end inside one; four          *)
(*                messages, so that one can be lost, one swallowed by the                 *)
(*                resynchronisation and others follow; a header line of four parts at     *)
(*                most, so that a body glued to the next header may or may not fit, as    *)
(*                with the 256 bytes of the code                                          *)
EXTENDS SignalHandler, IoHandler, IoBuffer, DapFraming

VARIABLE part

mcBytes == {"a", "nl"}
mcSymmetry == Permutations(Fds)

MCInit ==
    /\ part \in {"signals", "descriptors", "buffer", "framing"}
    /\ SigInit /\ IoInit /\ BufferInit /\ Init

MCNext ==
    /\ UNCHANGED part
    /\ \/ part = "signals" /\ SigNext /\ UNCHANGED <<ioVars, bufferVars, vars>>
       \/ part = "descriptors" /\ IoNext /\ UNCHANGED <<sigVars, bufferVars, vars>>
       \/ part = "buffer" /\ BufferNext /\ UNCHANGED <<sigVars, ioVars, vars>>
       \/ part = "framing" /\ Next /\ UNCHANGED <<sigVars, ioVars, bufferVars>>

MCSpec == MCInit /\ [][MCNext]_<<part, sigVars, ioVars, bufferVars, vars>>
=============================================================================
