------------------------------- MODULE SshCmd -------------------------------
(***************************************************************************)
(* One call of Cmd.RunCtx, the runner under every ssh command but those of *)
(* POST /exec: the calling goroutine, the two goroutines that copy the     *)
(* command's output to the log, the callback registered on the context,    *)
(* which shares c.mySession with the caller without a lock, and the guest. *)
(*                                                                         *)
(* An operator named Bug... is a seeded fault: a plausible wrong form of   *)
(* the definition that follows it, used only to show that the properties   *)
(* notice it.                                                              *)
(***************************************************************************)
CONSTANT GuestMayHang   \* may the guest stop answering without a reset?

ASSUME SshCmdAssumption == GuestMayHang \in BOOLEAN

Pipe == {"stdout", "stderr"}

VARIABLES
    cancelled,   \* the context has ended
    caller,      \* where RunCtx stands
    callback,    \* where the context.AfterFunc callback stands
    mySession,   \* c.mySession: "nil", "open" or "closed"
    conn,        \* the ssh client's connection
    copying,     \* the pipes whose copier runs
    lost,        \* history: output the copiers had not copied was thrown away
    result,      \* what RunCtx returns
    guest,       \* "up", "silent", or "down": its connections are reset
    cmd          \* the command in the guest

callVars == <<caller, mySession, conn, copying, lost, result>>
vars == <<cancelled, callVars, callback, guest, cmd>>

TypeOK ==
    /\ cancelled \in BOOLEAN
    /\ caller \in {"register", "dial", "session", "start", "copy", "wait",
                   "closeSession", "forget", "closeClient", "returned"}
    /\ callback \in {"none", "armed", "found", "done", "panicked"}
    /\ mySession \in {"nil", "open", "closed"}
    /\ conn \in {"none", "open", "closed"}
    /\ copying \subseteq Pipe
    /\ lost \in BOOLEAN
    /\ result \in {"none", "nil", "error"}
    /\ guest \in {"up", "silent", "down"}
    /\ cmd \in {"none", "running", "succeeded", "failed", "signalled"}

Init ==
    /\ cancelled \in BOOLEAN
    /\ caller = "register"
    /\ callback = "none"
    /\ mySession = "nil"
    /\ conn = "none"
    /\ copying = {}
    /\ lost = FALSE
    /\ result = "none"
    /\ guest \in {"up", "down"}
    /\ cmd = "none"

Running == callback # "panicked"   \* a panic ends the whole program

\* What waits for the guest fails once its connections are reset, and does not
\* return while it is silent: no dial, request or read has a deadline.
Answers == guest = "up"
Reset == guest = "down"

-----------------------------------------------------------------------------
(* RunCtx *)

Register ==
    /\ caller = "register"
    /\ caller' = "dial"
    /\ callback' = "armed"
    /\ UNCHANGED <<mySession, conn, copying, lost, result, cmd>>

Dial ==
    /\ caller = "dial"
    /\ \/ Answers /\ conn' = "open" /\ caller' = "session" /\ UNCHANGED result
       \/ /\ guest # "silent"
          /\ caller' = "returned" /\ result' = "error" /\ UNCHANGED conn
    /\ UNCHANGED <<mySession, copying, lost, callback, cmd>>

BugLeaksClient == "returned"
AfterNoSession == "closeClient"

\* From here on client.Close is deferred.
NewSession ==
    /\ caller = "session"
    /\ \/ /\ Answers
          /\ mySession' = "open" /\ caller' = "start" /\ UNCHANGED result
       \/ /\ guest # "silent"
          /\ caller' = AfterNoSession /\ result' = "error"
          /\ UNCHANGED mySession
    /\ UNCHANGED <<conn, copying, lost, callback, cmd>>

\* A session whose command did not start stays in mySession, open.
StartCommand ==
    /\ caller = "start"
    /\ \/ /\ Answers
          /\ cmd' = "running" /\ copying' = Pipe /\ caller' = "copy"
          /\ UNCHANGED result
       \/ /\ guest # "silent"
          /\ caller' = "closeClient" /\ result' = "error"
          /\ UNCHANGED <<cmd, copying>>
    /\ UNCHANGED <<mySession, conn, lost, callback>>

BugNoWait == TRUE
OutputCopied == copying = {}

\* wg.Wait
WaitCopiers ==
    /\ caller = "copy"
    /\ OutputCopied
    /\ caller' = "wait"
    /\ UNCHANGED <<mySession, conn, copying, lost, result, callback, cmd>>

BugLosesStatus == {"error", "exit status"}
BugIgnoresStatus == {"nil"}
WaitFails == {"error"}

\* mySession.Wait: the exit status, or the end of the connection.
WaitCommand ==
    /\ caller = "wait"
    /\ \/ Answers /\ cmd = "succeeded" /\ result' = "nil"
       \/ Answers /\ cmd \in {"failed", "signalled"} /\ result' \in WaitFails
       \/ Reset /\ result' \in WaitFails
    /\ caller' = "closeSession"
    /\ UNCHANGED <<mySession, conn, copying, lost, callback, cmd>>

\* The two deferred functions, the later one first.
CloseSession ==
    /\ caller = "closeSession"
    /\ mySession' = "closed"
    /\ caller' = "forget"
    /\ lost' = (copying # {})
    /\ UNCHANGED <<conn, copying, result, callback, cmd>>

ForgetSession ==
    /\ caller = "forget"
    /\ mySession' = "nil"
    /\ caller' = "closeClient"
    /\ UNCHANGED <<conn, copying, lost, result, callback, cmd>>

CloseClient ==
    /\ caller = "closeClient"
    /\ conn' = "closed"
    /\ caller' = "returned"
    /\ UNCHANGED <<mySession, copying, lost, result, callback, cmd>>

Caller ==
    /\ Running
    /\ \/ Register \/ Dial \/ NewSession \/ StartCommand \/ WaitCopiers
       \/ WaitCommand \/ CloseSession \/ ForgetSession \/ CloseClient
    /\ UNCHANGED <<cancelled, guest>>

\* A copier ends at the end of its pipe.
CopierEnds(p) ==
    /\ Running
    /\ p \in copying
    /\ Reset \/ mySession # "open" \/ (Answers /\ cmd # "running")
    /\ copying' = copying \ {p}
    /\ UNCHANGED <<cancelled, caller, mySession, conn, lost, result, callback,
                   guest, cmd>>

-----------------------------------------------------------------------------
(* The callback: two reads of c.mySession *)

CallbackChecks ==
    /\ callback = "armed"
    /\ cancelled
    /\ callback' = IF mySession = "nil" THEN "done" ELSE "found"
    /\ UNCHANGED cmd

BugSendsNothing == cmd
Signalled ==
    IF mySession = "open" /\ conn = "open" /\ Answers /\ cmd = "running"
    THEN "signalled" ELSE cmd

\* A nil session panics; a closed one only returns an error, which is logged.
CallbackSignals ==
    /\ callback = "found"
    /\ IF mySession = "nil"
       THEN callback' = "panicked" /\ UNCHANGED cmd
       ELSE callback' = "done" /\ cmd' = Signalled

Callback ==
    /\ Running
    /\ CallbackChecks \/ CallbackSignals
    /\ UNCHANGED <<cancelled, callVars, guest>>

-----------------------------------------------------------------------------
(* The context's owner, the guest and the command *)

Cancel ==
    /\ ~cancelled
    /\ cancelled' = TRUE
    /\ UNCHANGED <<guest, cmd>>

CommandExits ==
    /\ cmd = "running"
    /\ cmd' \in {"succeeded", "failed"}
    /\ UNCHANGED <<cancelled, guest>>

GuestChanges ==
    /\ guest # "down"
    /\ \/ guest' = "down"
       \/ GuestMayHang /\ guest = "up" /\ guest' = "silent"
    /\ UNCHANGED <<cancelled, cmd>>

Environment ==
    /\ Cancel \/ CommandExits \/ GuestChanges
    /\ UNCHANGED <<callVars, callback>>

Next ==
    \/ Caller \/ (\E p \in Pipe : CopierEnds(p)) \/ Callback \/ Environment

Spec == Init /\ [][Next]_vars

\* Goroutines are scheduled; the owner, the guest and the command owe nothing.
Fairness ==
    /\ WF_vars(Caller)
    /\ \A p \in Pipe : WF_vars(CopierEnds(p))
    /\ WF_vars(Callback)

FairSpec == Spec /\ Fairness

-----------------------------------------------------------------------------
(* Safety *)

\* RunCtx returns nil only for a command that exited with status zero: the
\* shutdown counts the disks as flushed on that word (cmd.go:138-142).
NilMeansSuccess == result = "nil" => cmd = "succeeded"

\* No way out of RunCtx leaves the connection to the guest open
\* (cmd.go:86-95, 124-131: three error returns behind one defer).
NothingLeftOpen == caller = "returned" => conn # "open"

\* The session is closed only when both copiers have ended: no output of the
\* command is cut off (cmd.go:133-138).
OutputComplete == ~lost

-----------------------------------------------------------------------------
(* Liveness *)

\* A context that ends while the command runs, and the callback armed, ends the
\* call, unless the guest goes silent (cmd.go:77-84).
CancelEndsCall ==
    caller = "copy" /\ callback = "armed" /\ cancelled
        ~> caller = "returned" \/ ~Running \/ guest = "silent"

-----------------------------------------------------------------------------
(* What the repository says and the code does not do *)

\* cmd.go:78 asserts that the session it signals is there.
SignalsASession == callback # "panicked"
=============================================================================
