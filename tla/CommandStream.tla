--------------------------- MODULE CommandStream ---------------------------
(***************************************************************************)
(* What POST /exec promises, with no goroutine, channel or connection in   *)
(* sight: one command says things, the client hears them in the order they *)
(* were said, each once, is told of a failure at most once and only after  *)
(* the command is over, and hears nothing after the closing mark.          *)
(***************************************************************************)
EXTENDS Naturals, Sequences

CONSTANT Word   \* what a command can say at once

VARIABLES
    said,    \* all the command has said
    heard,   \* how much of it the client has heard
    over,    \* the command's run has returned
    told,    \* the client was told of a failure
    closed   \* the client got the closing mark

vars == <<said, heard, over, told, closed>>

Init ==
    /\ said = <<>>
    /\ heard = 0
    /\ over = FALSE
    /\ told = FALSE
    /\ closed = FALSE

Say ==
    /\ ~over
    /\ \E w \in Word : said' = Append(said, w)
    /\ UNCHANGED <<heard, over, told, closed>>

Hear ==
    /\ ~closed
    /\ heard < Len(said)
    /\ heard' = heard + 1
    /\ UNCHANGED <<said, over, told, closed>>

Return ==
    /\ ~over
    /\ over' = TRUE
    /\ UNCHANGED <<said, heard, told, closed>>

Tell ==
    /\ over
    /\ ~told
    /\ ~closed
    /\ told' = TRUE
    /\ UNCHANGED <<said, heard, over, closed>>

Close ==
    /\ over
    /\ ~closed
    /\ closed' = TRUE
    /\ UNCHANGED <<said, heard, over, told>>

Next == Say \/ Hear \/ Return \/ Tell \/ Close

Spec == Init /\ [][Next]_vars
=============================================================================
