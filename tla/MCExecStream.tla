---------------------------- MODULE MCExecStream ----------------------------
(* The bounds under which ExecStream is checked.                            *)
EXTENDS ExecStream

\* Two chunks per pipe: one can be heard, one lost, repeated or overtaken.
MCChunks == 2
\* One chunk is enough where only the end of a run matters.
MCOneChunk == 1

\* Heard is the filter of Sequences, stated by positions.
ASSUME HeardAssumption ==
    \A n \in 0 .. 4 :
        \A q \in [1 .. n -> {Out("stdout", 1), Out("stderr", 1), Done}] :
            Heard(q) = SelectSeq(q, LAMBDA e : e.event = "out")
=============================================================================
