----------------------------- MODULE ExecStream -----------------------------
(***************************************************************************)
(* One POST /exec: the handler's select loop that writes server-sent       *)
(* events, the goroutine that runs the command over ssh, the two copiers   *)
(* of its session, the callback registered on the request's context, and   *)
(* the command in the guest.  The unbounded channel is outCh; the branches *)
(* of the select that write only a ping, or find a channel closed and      *)
(* continue, change nothing here.                                          *)
(*                                                                         *)
(* An operator named Bug... is a seeded fault: a plausible wrong form of   *)
(* the definition that follows it, used only to show that the properties   *)
(* notice it.                                                              *)
(***************************************************************************)
EXTENDS Naturals, Sequences, FiniteSets

CONSTANTS
    MaxChunks,     \* bound: chunks the command writes to each of its pipes
    GuestMayHang   \* may the guest stop answering without a connection reset?

ASSUME ExecStreamAssumption ==
    /\ MaxChunks \in Nat
    /\ GuestMayHang \in BOOLEAN

Source == {"stdout", "stderr"}

VARIABLES
    client,   \* the http client: "connected" or "gone"
    handler,  \* where DoExec stands
    runner,   \* where the goroutine calling exec stands
    killer,   \* the context.AfterFunc callback
    guest,    \* "up", "silent", or "down": its connections are reset
    conn,     \* the ssh connection
    cmd,      \* the command in the guest
    wrote,    \* chunks the command has written, per pipe
    copied,   \* chunks its session has put on outCh, per pipe
    copying,  \* the pipes whose copier runs
    outCh,    \* what the unbounded channel holds
    errCh,    \* what errCh, of capacity one, holds
    doneCh,   \* doneCh holds its token
    stream    \* the events DoExec has written to the response

worldVars == <<client, guest, wrote>>
sshVars == <<conn, cmd>>
copyVars == <<copied, copying, outCh>>
vars == <<worldVars, sshVars, copyVars, handler, runner, killer, errCh,
          doneCh, stream>>

Out(s, k) == [event |-> "out", src |-> s, n |-> k]
\* n: the stderr chunk the message quotes, 0 when there was none.
Error(k) == [event |-> "error", n |-> k]
Done == [event |-> "done"]

OutEvent == {Out(s, k) : s \in Source, k \in 1 .. MaxChunks}
ErrorEvent == {Error(k) : k \in 0 .. MaxChunks}

TypeOK ==
    /\ client \in {"connected", "gone"}
    /\ handler \in {"decode", "select", "leave", "returned"}
    /\ runner \in {"none", "key", "dial", "session", "afterFunc", "start",
                   "wait", "signalDone", "closeOut", "closeErr", "ended"}
    /\ killer \in {"none", "armed", "signalled", "done"}
    /\ guest \in {"up", "silent", "down"}
    /\ conn \in {"none", "open", "closed"}
    /\ cmd \in {"none", "running", "succeeded", "failed", "killed"}
    /\ wrote \in [Source -> 0 .. MaxChunks]
    /\ copied \in [Source -> 0 .. MaxChunks]
    /\ copying \subseteq Source
    /\ outCh \in Seq(OutEvent)
    /\ errCh \in Seq(ErrorEvent) /\ Len(errCh) <= 1
    /\ doneCh \in BOOLEAN
    /\ stream \in Seq(OutEvent \cup ErrorEvent \cup {Done})

Init ==
    /\ client = "connected"
    /\ handler = "decode"
    /\ runner = "none"
    /\ killer = "none"
    /\ guest \in {"up", "down"}
    /\ conn = "none"
    /\ cmd = "none"
    /\ wrote = [s \in Source |-> 0]
    /\ copied = [s \in Source |-> 0]
    /\ copying = {}
    /\ outCh = <<>>
    /\ errCh = <<>>
    /\ doneCh = FALSE
    /\ stream = <<>>

-----------------------------------------------------------------------------
(* The goroutine: exec, then the end marks *)

\* net/http ends the request's context when the client leaves and when the
\* handler has returned.
CtxDone == client = "gone" \/ handler = "returned"

Answers == guest = "up" /\ conn # "closed"
\* What waits for the guest returns an error once the connection is gone.
Broken == guest = "down" \/ conn = "closed"

Finish == runner' = "signalDone"
FailWith(k) == errCh' = Append(errCh, Error(k)) /\ Finish

\* An unreadable key is an error of exec that never reaches errCh.
ReadKey ==
    /\ runner = "key"
    /\ runner' = "dial" \/ Finish
    /\ UNCHANGED <<worldVars, sshVars, copyVars, handler, killer, errCh,
                   doneCh, stream>>

\* No deadline: while the guest is silent the call does not return.
Dial ==
    /\ runner = "dial"
    /\ \/ /\ guest = "up"
          /\ conn' = "open"
          /\ runner' = "session"
          /\ UNCHANGED errCh
       \/ /\ guest # "silent"
          /\ FailWith(0)
          /\ UNCHANGED conn
    /\ UNCHANGED <<worldVars, cmd, copyVars, handler, killer, doneCh, stream>>

NewSession ==
    /\ runner = "session"
    /\ \/ Answers /\ runner' = "afterFunc" /\ UNCHANGED <<conn, errCh>>
       \/ guest # "silent" /\ FailWith(0) /\ conn' = "closed"
    /\ UNCHANGED <<worldVars, cmd, copyVars, handler, killer, doneCh, stream>>

RegisterAfterFunc ==
    /\ runner = "afterFunc"
    /\ killer' = "armed"
    /\ runner' = "start"
    /\ UNCHANGED <<worldVars, sshVars, copyVars, handler, errCh, doneCh, stream>>

BugStartOnly == "signalDone"
AfterStart == "wait"

\* session.Run, up to the guest's reply to the request.
StartCommand ==
    /\ runner = "start"
    /\ \/ /\ Answers
          /\ cmd' = "running"
          /\ copying' = Source
          /\ runner' = AfterStart
          /\ UNCHANGED <<conn, errCh>>
       \/ /\ Broken
          /\ FailWith(0)
          /\ conn' = "closed"
          /\ UNCHANGED <<cmd, copying>>
    /\ UNCHANGED <<worldVars, copied, outCh, handler, killer, doneCh, stream>>

\* recordWriter keeps the chunk, then chWriter puts it on outCh.
BugPutsLast(s) == outCh' = Append(outCh, Out(s, copied[s]))
BugPutUnordered(s) ==
    \/ outCh' = Append(outCh, Out(s, copied[s] + 1))
    \/ outCh' = <<Out(s, copied[s] + 1)>> \o outCh
Put(s) == outCh' = Append(outCh, Out(s, copied[s] + 1))

\* A chunk the connection lost is never copied.
Copy(s) ==
    /\ s \in copying
    /\ \/ /\ copied[s] < wrote[s]
          /\ Put(s)
          /\ copied' = [copied EXCEPT ![s] = @ + 1]
          /\ UNCHANGED copying
       \/ /\ Broken \/ (cmd # "running" /\ copied[s] = wrote[s])
          /\ copying' = copying \ {s}
          /\ UNCHANGED <<copied, outCh>>
    /\ UNCHANGED <<worldVars, sshVars, handler, runner, killer, errCh, doneCh,
                   stream>>

ExitKnown == Broken \/ (Answers /\ cmd # "running")

CopiersDone == copying = {}

BugNoRecord == 0
LastRecord == copied["stderr"]

\* session.Run waits for the exit status, then for both copiers; the deferred
\* calls close the session and the connection.
RunReturns ==
    /\ runner = "wait"
    /\ ExitKnown
    /\ CopiersDone
    /\ \/ cmd = "succeeded" /\ Finish /\ UNCHANGED errCh
       \/ (cmd # "succeeded" \/ Broken) /\ FailWith(LastRecord)
    /\ conn' = "closed"
    /\ UNCHANGED <<worldVars, cmd, copyVars, handler, killer, doneCh, stream>>

BugSignalsNothing == doneCh' = doneCh
Signal == doneCh' = TRUE

SignalDone ==
    /\ runner = "signalDone"
    /\ Signal
    /\ runner' = "closeOut"
    /\ UNCHANGED <<worldVars, sshVars, copyVars, handler, killer, errCh, stream>>

CloseChannels ==
    /\ \/ runner = "closeOut" /\ runner' = "closeErr"
       \/ runner = "closeErr" /\ runner' = "ended"
    /\ UNCHANGED <<worldVars, sshVars, copyVars, handler, killer, errCh,
                   doneCh, stream>>

Runner ==
    \/ ReadKey \/ Dial \/ NewSession \/ RegisterAfterFunc \/ StartCommand
    \/ RunReturns \/ SignalDone \/ CloseChannels

-----------------------------------------------------------------------------
(* The callback on the request's context *)

KillerSignals ==
    /\ killer = "armed"
    /\ CtxDone
    /\ cmd' = IF Answers /\ cmd = "running" THEN "killed" ELSE cmd
    /\ killer' = "signalled"
    /\ UNCHANGED conn

BugKeepsConn == conn
ClosedConn == "closed"

KillerCloses ==
    /\ killer = "signalled"
    /\ conn' = ClosedConn
    /\ killer' = "done"
    /\ UNCHANGED cmd

Killer ==
    /\ KillerSignals \/ KillerCloses
    /\ UNCHANGED <<worldVars, copyVars, handler, runner, errCh, doneCh, stream>>

-----------------------------------------------------------------------------
(* DoExec *)

Decode ==
    /\ handler = "decode"
    /\ \/ handler' = "select" /\ runner' = "key"
       \/ handler' = "returned" /\ UNCHANGED runner
    /\ UNCHANGED <<worldVars, sshVars, copyVars, killer, errCh, doneCh, stream>>

Send(e) == stream' = Append(stream, e)

SelectDone ==
    /\ handler = "select"
    /\ doneCh
    /\ doneCh' = FALSE
    /\ handler' = "leave"
    /\ UNCHANGED <<worldVars, sshVars, copyVars, runner, killer, errCh, stream>>

SelectErr ==
    /\ handler = "select"
    /\ errCh # <<>>
    /\ Send(Head(errCh))
    /\ errCh' = Tail(errCh)
    /\ UNCHANGED <<worldVars, sshVars, copyVars, handler, runner, killer,
                   doneCh>>

SelectOut ==
    /\ handler = "select"
    /\ outCh # <<>>
    /\ Send(Head(outCh))
    /\ outCh' = Tail(outCh)
    /\ UNCHANGED <<worldVars, sshVars, copied, copying, handler, runner,
                   killer, errCh, doneCh>>

BugIgnoresClient == FALSE
ClientLeft == client = "gone"

SelectCtx ==
    /\ handler = "select"
    /\ ClientLeft
    /\ handler' = "leave"
    /\ UNCHANGED <<worldVars, sshVars, copyVars, runner, killer, errCh, doneCh,
                   stream>>

\* The deferred function: done is written unless the client has left.
Leave ==
    /\ handler = "leave"
    /\ IF client = "gone" THEN UNCHANGED stream ELSE Send(Done)
    /\ handler' = "returned"
    /\ UNCHANGED <<worldVars, sshVars, copyVars, runner, killer, errCh, doneCh>>

Handler ==
    Decode \/ SelectDone \/ SelectErr \/ SelectOut \/ SelectCtx \/ Leave

-----------------------------------------------------------------------------
(* The client, the guest and the command *)

ClientLeaves ==
    /\ client = "connected"
    /\ client' = "gone"
    /\ UNCHANGED <<guest, cmd, wrote>>

CommandWrites(s) ==
    /\ cmd = "running"
    /\ wrote[s] < MaxChunks
    /\ wrote' = [wrote EXCEPT ![s] = @ + 1]
    /\ UNCHANGED <<client, guest, cmd>>

CommandExits ==
    /\ cmd = "running"
    /\ cmd' \in {"succeeded", "failed"}
    /\ UNCHANGED <<client, guest, wrote>>

GuestChanges ==
    /\ guest # "down"
    /\ \/ guest' = "down"
       \/ GuestMayHang /\ guest = "up" /\ guest' = "silent"
    /\ UNCHANGED <<client, cmd, wrote>>

Environment ==
    /\ \/ ClientLeaves \/ (\E s \in Source : CommandWrites(s))
       \/ CommandExits \/ GuestChanges
    /\ UNCHANGED <<conn, copyVars, handler, runner, killer, errCh, doneCh,
                   stream>>

Next ==
    \/ Runner \/ (\E s \in Source : Copy(s)) \/ Killer \/ Handler
    \/ Environment

Spec == Init /\ [][Next]_vars

\* Goroutines are scheduled; select picks uniformly among its ready cases, so
\* one that stays ready is picked in the end.  The command, the guest and the
\* client owe nothing.
Fairness ==
    /\ WF_vars(Runner)
    /\ \A s \in Source : WF_vars(Copy(s) /\ (guest = "up" \/ Broken))
    /\ WF_vars(Killer)
    /\ WF_vars(Decode) /\ WF_vars(Leave)
    /\ WF_vars(SelectDone) /\ WF_vars(SelectErr)
    /\ WF_vars(SelectOut) /\ WF_vars(SelectCtx)

FairSpec == Spec /\ Fairness

-----------------------------------------------------------------------------
(* Safety *)

Sent(e) == \E i \in DOMAIN stream : stream[i].event = e

\* The client gets each pipe's output in order, with no chunk twice and none
\* skipped (chWriter and the select of exec.go:165-175, 132-162).
OutInOrder ==
    \A i \in DOMAIN stream :
        stream[i].event = "out" =>
            /\ \A j \in 1 .. i - 1 :
                   stream[j].event = "out" /\ stream[j].src = stream[i].src
                   => stream[j].n < stream[i].n
            /\ \A k \in 1 .. stream[i].n - 1 :
                   \E j \in 1 .. i - 1 : stream[j] = Out(stream[i].src, k)

\* "done" is not written while the command runs in a guest that can be reached
\* (exec.go:111-121: the token follows session.Run).
DoneAfterEnd ==
    Sent("done") /\ guest # "down" => cmd # "running"

\* The error of a command that failed quotes the last thing it wrote to its
\* standard error (exec.go:69-72: both copiers have ended by then).
ErrorQuotesLastStderr ==
    \A i \in DOMAIN stream :
        /\ stream[i].event = "error"
        /\ cmd = "failed" /\ guest # "down" /\ client = "connected"
        => stream[i].n = wrote["stderr"]

-----------------------------------------------------------------------------
(* Liveness *)

\* A client that leaves frees the handler, whatever the guest does
\* (exec.go:154-156).
HandlerLeaves == client = "gone" ~> handler = "returned"

\* Once the goroutine is through, the handler returns: its token is not lost
\* among the closed channels, which are always ready (exec.go:117-135).
EndIsSeen == runner = "ended" ~> handler = "returned"

\* When the client leaves during the command, the goroutine ends too, even if
\* the guest is silent: the callback closes the connection under it
\* (exec.go:58-61).
RunEndsWithClient ==
    runner \in {"start", "wait"} /\ client = "gone" ~> runner = "ended"

-----------------------------------------------------------------------------
(* What the repository says and the code does not do *)

\* exec.go:127: "done" marks the end of the data, so nothing the command has
\* said and no error is still waiting behind it.
DoneIsEndOfData ==
    Sent("done") => outCh = <<>> /\ errCh = <<>>

-----------------------------------------------------------------------------
(* Implementation of CommandStream *)

\* What the client has heard: the output among the events written, in order.
OutsTo(q, i) == {j \in 1 .. i : q[j].event = "out"}
KthOut(q, k) ==
    {q[i] : i \in {j \in OutsTo(q, Len(q)) : Cardinality(OutsTo(q, j)) = k}}
TheOne(S) == CHOOSE e \in S : TRUE
Heard(q) ==
    [k \in 1 .. Cardinality(OutsTo(q, Len(q))) |-> TheOne(KthOut(q, k))]

Over == {"signalDone", "closeOut", "closeErr", "ended"}

Exec == INSTANCE CommandStream WITH
    Word <- OutEvent,
    said <- Heard(stream) \o outCh,
    heard <- Len(Heard(stream)),
    over <- runner \in Over,
    told <- Sent("error"),
    closed <- Sent("done")

\* POST /exec keeps the promise of CommandStream (exec.go:83-163).
KeepsStreamPromise == Exec!Spec
=============================================================================
