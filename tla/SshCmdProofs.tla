---------------------------- MODULE SshCmdProofs ----------------------------
(***************************************************************************)
(* Proofs about SshCmd, with a guest that may hang and with one that may   *)
(* not: the type invariant and the three safety invariants of one call.    *)
(***************************************************************************)
EXTENDS SshCmd, TLAPS

\* What the position of RunCtx says about its outcome, its connection and its
\* copiers.
CallInv ==
    /\ caller \in {"register", "dial", "session", "start"} => result = "none"
    /\ caller \in {"register", "dial"} => conn = "none"
    /\ caller \in {"wait", "closeSession"} => OutputCopied

IInv ==
    /\ TypeOK
    /\ CallInv
    /\ NilMeansSuccess
    /\ NothingLeftOpen
    /\ OutputComplete

-----------------------------------------------------------------------------

LEMMA IInvInit == Init => IInv
BY DEF Init, IInv, TypeOK, CallInv, Pipe, NilMeansSuccess, NothingLeftOpen,
       OutputComplete

LEMMA TypeNext == TypeOK /\ [Next]_vars => TypeOK'
<1> SUFFICES ASSUME TypeOK, [Next]_vars
             PROVE  TypeOK'
    OBVIOUS
<1> USE DEF TypeOK, Pipe
<1>1. CASE Caller
  <2> USE <1>1 DEF Caller
  <2>1. CASE Register
    BY <2>1 DEF Register
  <2>2. CASE Dial
    BY <2>2 DEF Dial
  <2>3. CASE NewSession
    BY <2>3 DEF NewSession, AfterNoSession
  <2>4. CASE StartCommand
    <3>1. UNCHANGED <<mySession, conn, lost, callback, cancelled, guest>>
      BY <2>4 DEF StartCommand
    <3>2. /\ caller' \in {"copy", "closeClient"}
          /\ cmd' \in {"running", cmd}
          /\ copying' \in {Pipe, copying}
          /\ result' \in {"error", result}
      BY <2>4 DEF StartCommand
    <3>3. QED
      BY <3>1, <3>2
  <2>5. CASE WaitCopiers
    BY <2>5 DEF WaitCopiers
  <2>6. CASE WaitCommand
    BY <2>6 DEF WaitCommand, WaitFails
  <2>7. CASE CloseSession
    BY <2>7 DEF CloseSession
  <2>8. CASE ForgetSession
    BY <2>8 DEF ForgetSession
  <2>9. CASE CloseClient
    BY <2>9 DEF CloseClient
  <2>10. QED
    BY <2>1, <2>2, <2>3, <2>4, <2>5, <2>6, <2>7, <2>8, <2>9
<1>2. ASSUME NEW p \in Pipe, CopierEnds(p)
      PROVE  TypeOK'
  BY <1>2 DEF CopierEnds
<1>3. CASE Callback
  BY <1>3 DEF Callback, CallbackChecks, CallbackSignals, Signalled, callVars
<1>4. CASE Environment
  <2>1. CASE Cancel
    BY <1>4, <2>1 DEF Environment, Cancel, callVars
  <2>2. CASE CommandExits
    BY <1>4, <2>2 DEF Environment, CommandExits, callVars
  <2>3. CASE GuestChanges
    BY <1>4, <2>3 DEF Environment, GuestChanges, callVars
  <2>4. QED
    BY <1>4, <2>1, <2>2, <2>3 DEF Environment
<1>5. CASE UNCHANGED vars
  BY <1>5 DEF vars, callVars
<1>6. QED
  BY <1>1, <1>2, <1>3, <1>4, <1>5 DEF Next

\* The position keeps its meaning: only Dial opens the connection, only
\* WaitCopiers enters the wait, only WaitCommand and errors set the result.
LEMMA CallNext == IInv /\ [Next]_vars => CallInv'
<1> SUFFICES ASSUME IInv, [Next]_vars
             PROVE  CallInv'
    OBVIOUS
<1> USE DEF IInv, TypeOK, CallInv, OutputCopied
<1>1. CASE Caller
  <2> USE <1>1 DEF Caller
  <2>1. CASE Register
    BY <2>1 DEF Register
  <2>2. CASE Dial
    BY <2>2 DEF Dial
  <2>3. CASE NewSession
    BY <2>3 DEF NewSession, AfterNoSession
  <2>4. CASE StartCommand
    BY <2>4 DEF StartCommand
  <2>5. CASE WaitCopiers
    BY <2>5 DEF WaitCopiers
  <2>6. CASE WaitCommand
    BY <2>6 DEF WaitCommand
  <2>7. CASE CloseSession
    BY <2>7 DEF CloseSession
  <2>8. CASE ForgetSession
    BY <2>8 DEF ForgetSession
  <2>9. CASE CloseClient
    BY <2>9 DEF CloseClient
  <2>10. QED
    BY <2>1, <2>2, <2>3, <2>4, <2>5, <2>6, <2>7, <2>8, <2>9
<1>2. ASSUME NEW p \in Pipe, CopierEnds(p)
      PROVE  CallInv'
  BY <1>2 DEF CopierEnds
<1>3. CASE Callback
  BY <1>3 DEF Callback, callVars
<1>4. CASE Environment
  BY <1>4 DEF Environment, callVars
<1>5. CASE UNCHANGED vars
  BY <1>5 DEF vars, callVars
<1>6. QED
  BY <1>1, <1>2, <1>3, <1>4, <1>5 DEF Next

\* A command that has ended well is neither started again nor signalled.
LEMMA ResultNext == IInv /\ [Next]_vars => NilMeansSuccess'
<1> SUFFICES ASSUME IInv, [Next]_vars
             PROVE  NilMeansSuccess'
    OBVIOUS
<1> USE DEF IInv, TypeOK, CallInv, NilMeansSuccess
<1>1. CASE Caller
  <2> USE <1>1 DEF Caller
  <2>1. CASE Dial \/ NewSession \/ StartCommand
    BY <2>1 DEF Dial, NewSession, StartCommand
  <2>2. CASE WaitCommand
    BY <2>2 DEF WaitCommand, WaitFails
  <2>3. CASE Register \/ WaitCopiers \/ CloseSession \/ ForgetSession
               \/ CloseClient
    BY <2>3 DEF Register, WaitCopiers, CloseSession, ForgetSession,
                CloseClient
  <2>4. QED
    BY <2>1, <2>2, <2>3
<1>2. ASSUME NEW p \in Pipe, CopierEnds(p)
      PROVE  NilMeansSuccess'
  BY <1>2 DEF CopierEnds
<1>3. CASE Callback
  BY <1>3 DEF Callback, CallbackChecks, CallbackSignals, Signalled, callVars
<1>4. CASE Environment
  BY <1>4 DEF Environment, Cancel, CommandExits, GuestChanges, callVars
<1>5. CASE UNCHANGED vars
  BY <1>5 DEF vars, callVars
<1>6. QED
  BY <1>1, <1>2, <1>3, <1>4, <1>5 DEF Next

\* Every way to the end closes the connection or never opened one, and the
\* session is closed on the way only after the copiers.
LEMMA CloseNext ==
    IInv /\ [Next]_vars => NothingLeftOpen' /\ OutputComplete'
<1> SUFFICES ASSUME IInv, [Next]_vars
             PROVE  NothingLeftOpen' /\ OutputComplete'
    OBVIOUS
<1> USE DEF IInv, CallInv, NothingLeftOpen, OutputComplete, OutputCopied
<1>1. CASE Caller
  <2> USE <1>1 DEF Caller
  <2>1. CASE Dial
    BY <2>1 DEF Dial
  <2>2. CASE NewSession
    BY <2>2 DEF NewSession, AfterNoSession
  <2>3. CASE CloseSession
    BY <2>3 DEF CloseSession
  <2>4. CASE CloseClient
    BY <2>4 DEF CloseClient
  <2>5. CASE Register \/ StartCommand \/ WaitCopiers \/ WaitCommand
               \/ ForgetSession
    BY <2>5 DEF Register, StartCommand, WaitCopiers, WaitCommand,
                ForgetSession
  <2>6. QED
    BY <2>1, <2>2, <2>3, <2>4, <2>5
<1>2. ASSUME NEW p \in Pipe, CopierEnds(p)
      PROVE  NothingLeftOpen' /\ OutputComplete'
  BY <1>2 DEF CopierEnds
<1>3. CASE Callback
  BY <1>3 DEF Callback, callVars
<1>4. CASE Environment
  BY <1>4 DEF Environment, callVars
<1>5. CASE UNCHANGED vars
  BY <1>5 DEF vars, callVars
<1>6. QED
  BY <1>1, <1>2, <1>3, <1>4, <1>5 DEF Next

LEMMA IInvNext == IInv /\ [Next]_vars => IInv'
BY TypeNext, CallNext, ResultNext, CloseNext DEF IInv

LEMMA IInvHolds == Spec => []IInv
BY IInvInit, IInvNext, PTL DEF Spec

-----------------------------------------------------------------------------

\* Every variable of a call keeps its type (cmd.go:76-143).
THEOREM CallTypeCorrect == Spec => []TypeOK
<1>1. IInv => TypeOK
  BY DEF IInv
<1>2. QED
  BY <1>1, IInvHolds, PTL

\* RunCtx returns nil only for a command that exited with status zero, whatever
\* the callback does meanwhile (cmd.go:77-84, 138-142).
THEOREM NilMeansSuccessHolds == Spec => []NilMeansSuccess
<1>1. IInv => NilMeansSuccess
  BY DEF IInv
<1>2. QED
  BY <1>1, IInvHolds, PTL

\* No return of RunCtx leaves the connection open (cmd.go:86-131).
THEOREM NothingLeftOpenHolds == Spec => []NothingLeftOpen
<1>1. IInv => NothingLeftOpen
  BY DEF IInv
<1>2. QED
  BY <1>1, IInvHolds, PTL

\* No output is cut off by the deferred Close (cmd.go:128-138).
THEOREM OutputCompleteHolds == Spec => []OutputComplete
<1>1. IInv => OutputComplete
  BY DEF IInv
<1>2. QED
  BY <1>1, IInvHolds, PTL
=============================================================================
