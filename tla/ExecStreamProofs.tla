-------------------------- MODULE ExecStreamProofs --------------------------
(***************************************************************************)
(* Proofs about ExecStream, for any number of chunks and with a guest that *)
(* may hang or not: the type invariant, the three safety invariants of the *)
(* stream, and that POST /exec implements CommandStream.                   *)
(***************************************************************************)
EXTENDS ExecStream, FiniteSetTheorems, SequenceTheorems, TLAPS

Event == OutEvent \cup ErrorEvent \cup {Done}

IsChunk(e, s) == e.event = "out" /\ e.src = s

\* The chunks of pipe s in q are lo + 1 .. hi, each once and in order.
InOrder(q, s, lo, hi) ==
    /\ \A i \in 1 .. Len(q) :
           IsChunk(q[i], s) => lo < q[i].n /\ q[i].n <= hi
    /\ \A i, j \in 1 .. Len(q) :
           i < j /\ IsChunk(q[i], s) /\ IsChunk(q[j], s) => q[i].n < q[j].n
    /\ \A k \in lo + 1 .. hi : \E i \in 1 .. Len(q) : q[i] = Out(s, k)

Before == {"none", "key", "dial", "session", "afterFunc", "start"}
Signalled == {"closeOut", "closeErr", "ended"}

\* Where the goroutine stands: what it has not done yet, and has done for good.
RunnerInv ==
    /\ runner \in Before => cmd = "none"
    /\ copying # {} => runner = "wait"
    /\ runner \notin Over => errCh = <<>> /\ ~Sent("error")
    /\ runner \notin Signalled => ~doneCh
    /\ runner \in {"session", "afterFunc", "start", "wait"} /\ conn = "closed"
       => client = "gone"
    /\ errCh # <<>> => ~Sent("error")

\* What the callback has seen, if it is registered.
KillerInv ==
    /\ killer # "none" => runner \in {"start", "wait"} \cup Over
    /\ killer \in {"signalled", "done"}
       => client = "gone" \/ runner \in Signalled

\* Where the handler stands: it leaves for the token or for the client.
HandlerInv ==
    /\ handler = "decode" <=> (runner = "none" /\ handler # "returned")
    /\ handler \in {"leave", "returned"}
       => runner \in Signalled \cup {"none"} \/ client = "gone"
    /\ Sent("done") => handler = "returned" /\ runner \in Signalled

\* Why a command is not running, or cannot be reached, when its run is over.
CommandInv ==
    /\ runner \in Over /\ cmd = "running"
       => guest = "down" \/ (client = "gone" /\ ~Sent("done"))
    /\ \A s \in Source :
           runner = "wait" /\ s \notin copying
           => Broken \/ (cmd # "running" /\ copied[s] = wrote[s])

\* Each pipe's output goes through the channel to the stream in order.
OrderInv ==
    \A s \in Source :
        \E h \in 0 .. copied[s] :
            /\ InOrder(stream, s, 0, h)
            /\ InOrder(outCh, s, h, copied[s])

Tells(e) ==
    cmd = "failed" /\ guest # "down" /\ client = "connected"
    => e.n = wrote["stderr"]

\* An error quotes the last chunk of stderr also while it is in errCh.
ErrorInv ==
    /\ \A i \in DOMAIN stream : stream[i].event = "error" => Tells(stream[i])
    /\ \A i \in DOMAIN errCh : Tells(errCh[i])

IInv ==
    /\ TypeOK
    /\ RunnerInv
    /\ KillerInv
    /\ HandlerInv
    /\ CommandInv
    /\ ErrorInv
    /\ OrderInv

-----------------------------------------------------------------------------
(* Events and sequences of events *)

LEMMA EventFacts ==
    /\ \A s \in Source, k \in 1 .. MaxChunks :
           /\ Out(s, k) \in OutEvent
           /\ Out(s, k).event = "out"
           /\ Out(s, k).src = s
           /\ Out(s, k).n = k
    /\ \A k \in 0 .. MaxChunks :
           /\ Error(k) \in ErrorEvent
           /\ Error(k).event = "error"
           /\ Error(k).n = k
    /\ Done.event = "done"
BY DEF Out, Error, Done, OutEvent, ErrorEvent

LEMMA OutEventFacts ==
    ASSUME NEW e \in OutEvent
    PROVE  /\ e \in Event
           /\ e.event = "out"
           /\ e.src \in Source
           /\ e.n \in 1 .. MaxChunks
           /\ e = Out(e.src, e.n)
BY DEF OutEvent, Out, Event

LEMMA ErrorEventFacts ==
    ASSUME NEW e \in ErrorEvent
    PROVE  /\ e \in Event
           /\ e.event = "error"
BY DEF ErrorEvent, Error, Event

\* The output is the only kind of event that has the mark "out".
LEMMA OutIsOutEvent ==
    ASSUME NEW e \in Event, e.event = "out"
    PROVE  e \in OutEvent
BY DEF ErrorEvent, Error, Event, Done

LEMMA LastOfAppend ==
    ASSUME NEW q \in Seq(Event), NEW e \in Event
    PROVE  /\ Append(q, e) \in Seq(Event)
           /\ Len(Append(q, e)) = Len(q) + 1
           /\ \A i \in 1 .. Len(q) : Append(q, e)[i] = q[i]
           /\ Append(q, e)[Len(q) + 1] = e
BY AppendProperties

LEMMA RestOfTail ==
    ASSUME NEW S, NEW q \in Seq(S), q # <<>>
    PROVE  /\ Head(q) = q[1] /\ q[1] \in S
           /\ Tail(q) \in Seq(S)
           /\ Len(Tail(q)) = Len(q) - 1 /\ Len(q) \in Nat \ {0}
           /\ \A i \in 1 .. Len(q) - 1 : Tail(q)[i] = q[i + 1]
OBVIOUS

\* What has been sent after one more event.
LEMMA SendSent ==
    ASSUME stream \in Seq(Event), NEW e \in Event, Send(e)
    PROVE  /\ stream' \in Seq(Event)
           /\ \A x : Sent(x)' <=> (Sent(x) \/ x = e.event)
<1>1. /\ stream' \in Seq(Event)
      /\ Len(stream') = Len(stream) + 1
      /\ \A i \in 1 .. Len(stream) : stream'[i] = stream[i]
      /\ stream'[Len(stream) + 1] = e
  BY LastOfAppend DEF Send
<1>2. Len(stream) \in Nat /\ DOMAIN stream = 1 .. Len(stream)
      /\ DOMAIN stream' = 1 .. Len(stream')
  BY <1>1, LenProperties
<1>3. ASSUME NEW x
      PROVE  Sent(x)' <=> (Sent(x) \/ x = e.event)
  BY <1>1, <1>2 DEF Sent
<1>4. QED
  BY <1>1, <1>3

-----------------------------------------------------------------------------
(* Sequences whose chunks are in order *)

LEMMA InOrderEmpty == ASSUME NEW s PROVE InOrder(<<>>, s, 0, 0)
BY DEF InOrder

\* The next chunk of pipe s at the end.
LEMMA InOrderAppend ==
    ASSUME NEW q \in Seq(Event), NEW s \in Source, NEW lo \in Nat,
           NEW hi \in Nat, lo <= hi, hi + 1 \in 1 .. MaxChunks,
           InOrder(q, s, lo, hi)
    PROVE  InOrder(Append(q, Out(s, hi + 1)), s, lo, hi + 1)
<1> DEFINE e == Out(s, hi + 1)
           r == Append(q, e)
<1>1. /\ e \in Event /\ IsChunk(e, s) /\ e.n = hi + 1
  BY EventFacts DEF IsChunk, Event
<1>2. /\ Len(r) = Len(q) + 1
      /\ \A i \in 1 .. Len(q) : r[i] = q[i]
      /\ r[Len(q) + 1] = e
  BY <1>1, LastOfAppend
<1>3. Len(q) \in Nat
  BY LenProperties
<1>4. e = Out(s, hi + 1)
  OBVIOUS
<1> HIDE DEF e, r
<1>5. \A i \in 1 .. Len(r) : i \in 1 .. Len(q) \/ i = Len(q) + 1
  BY <1>2, <1>3
<1>6. \A i \in 1 .. Len(q) : IsChunk(q[i], s) => q[i].n \in Int
  <2> SUFFICES ASSUME NEW i \in 1 .. Len(q), IsChunk(q[i], s)
               PROVE  q[i].n \in Int
    OBVIOUS
  <2>1. q[i] \in Event
    BY ElementOfSeq
  <2>2. QED
    BY <2>1, OutIsOutEvent, OutEventFacts DEF IsChunk
<1>7. \A i \in 1 .. Len(r) : IsChunk(r[i], s) => lo < r[i].n /\ r[i].n <= hi + 1
  BY <1>1, <1>2, <1>5, <1>6 DEF InOrder
<1>8. \A i, j \in 1 .. Len(r) :
          i < j /\ IsChunk(r[i], s) /\ IsChunk(r[j], s) => r[i].n < r[j].n
  <2> SUFFICES ASSUME NEW i \in 1 .. Len(r), NEW j \in 1 .. Len(r), i < j,
                      IsChunk(r[i], s), IsChunk(r[j], s)
               PROVE  r[i].n < r[j].n
    OBVIOUS
  <2>1. i \in 1 .. Len(q) /\ r[i] = q[i]
    BY <1>2, <1>3
  <2>2. CASE j \in 1 .. Len(q)
    BY <2>1, <2>2, <1>2 DEF InOrder
  <2>3. CASE j = Len(q) + 1
    BY <2>1, <2>3, <1>1, <1>2, <1>6 DEF InOrder
  <2>4. QED
    BY <2>2, <2>3, <1>5
<1>9. \A k \in lo + 1 .. hi + 1 : \E i \in 1 .. Len(r) : r[i] = Out(s, k)
  <2> SUFFICES ASSUME NEW k \in lo + 1 .. hi + 1
               PROVE  \E i \in 1 .. Len(r) : r[i] = Out(s, k)
    OBVIOUS
  <2>1. CASE k \in lo + 1 .. hi
    BY <2>1, <1>2, <1>3 DEF InOrder
  <2>2. CASE k = hi + 1
    BY <2>2, <1>2, <1>3, <1>4
  <2>3. QED
    BY <2>1, <2>2
<1>10. InOrder(r, s, lo, hi + 1)
  BY <1>7, <1>8, <1>9 DEF InOrder
<1>11. QED
  BY <1>10 DEF r, e

\* Any other event at the end.
LEMMA InOrderOther ==
    ASSUME NEW q \in Seq(Event), NEW e \in Event, NEW s, ~IsChunk(e, s),
           NEW lo, NEW hi, InOrder(q, s, lo, hi)
    PROVE  InOrder(Append(q, e), s, lo, hi)
<1> DEFINE r == Append(q, e)
<1>1. /\ Len(r) = Len(q) + 1
      /\ \A i \in 1 .. Len(q) : r[i] = q[i]
      /\ r[Len(q) + 1] = e
  BY LastOfAppend
<1>2. Len(q) \in Nat
  BY LenProperties
<1> HIDE DEF r
<1>3. \A i \in 1 .. Len(r) :
          IsChunk(r[i], s) => i \in 1 .. Len(q) /\ r[i] = q[i]
  BY <1>1, <1>2
<1>4. 1 .. Len(q) \subseteq 1 .. Len(r)
  BY <1>1, <1>2
<1>5. InOrder(r, s, lo, hi)
  BY <1>1, <1>3, <1>4 DEF InOrder
<1>6. QED
  BY <1>5 DEF r

\* The first chunk of pipe s in a sequence that begins with one.
LEMMA InOrderHead ==
    ASSUME NEW q \in Seq(Event), q # <<>>, NEW s \in Source, NEW lo \in Nat,
           NEW hi \in 0 .. MaxChunks, InOrder(q, s, lo, hi),
           IsChunk(Head(q), s), MaxChunks \in Nat
    PROVE  /\ lo < hi
           /\ Head(q) = Out(s, lo + 1)
           /\ InOrder(Tail(q), s, lo + 1, hi)
<1> DEFINE r == Tail(q)
<1>1. /\ Head(q) = q[1] /\ q[1] \in Event
      /\ Len(r) = Len(q) - 1 /\ Len(q) \in Nat \ {0}
      /\ \A i \in 1 .. Len(q) - 1 : r[i] = q[i + 1]
  BY RestOfTail
<1> HIDE DEF r
<1>2. /\ q[1].n \in Int /\ lo < q[1].n /\ q[1].n <= hi
      /\ IsChunk(q[1], s)
  BY <1>1, OutIsOutEvent, OutEventFacts DEF IsChunk, InOrder
<1>3. lo < hi
  BY <1>2
<1>4. PICK i \in 1 .. Len(q) : q[i] = Out(s, lo + 1)
  BY <1>3 DEF InOrder
<1>5. IsChunk(q[i], s) /\ q[i].n = lo + 1
  BY <1>3, <1>4, EventFacts DEF IsChunk
<1>6. i = 1
  <2>1. ~(1 < i)
    BY <1>1, <1>2, <1>5 DEF InOrder
  <2>2. QED
    BY <2>1, <1>1
<1>7. Head(q) = Out(s, lo + 1)
  BY <1>1, <1>4, <1>6
<1>8. q[1].n = lo + 1
  BY <1>5, <1>6
<1>9. \A k \in 1 .. Len(r) : k + 1 \in 1 .. Len(q) /\ r[k] = q[k + 1]
  BY <1>1
<1>10. \A k \in 1 .. Len(r) :
           IsChunk(r[k], s) => r[k].n \in Int /\ lo + 1 < r[k].n /\ r[k].n <= hi
  <2> SUFFICES ASSUME NEW k \in 1 .. Len(r), IsChunk(r[k], s)
               PROVE  r[k].n \in Int /\ lo + 1 < r[k].n /\ r[k].n <= hi
    OBVIOUS
  <2>1. k + 1 \in 1 .. Len(q) /\ r[k] = q[k + 1] /\ 1 < k + 1
        /\ 1 \in 1 .. Len(q)
    BY <1>1, <1>9
  <2>2. q[k + 1] \in Event
    BY <2>1, ElementOfSeq
  <2>3. q[k + 1].n \in Int
    BY <2>1, <2>2, OutIsOutEvent, OutEventFacts DEF IsChunk
  <2>4. q[1].n < q[k + 1].n /\ q[k + 1].n <= hi
    BY <2>1, <1>2 DEF InOrder
  <2>5. QED
    BY <2>1, <2>3, <2>4, <1>8
<1>11. \A k, l \in 1 .. Len(r) :
           k < l /\ IsChunk(r[k], s) /\ IsChunk(r[l], s) => r[k].n < r[l].n
  <2> SUFFICES ASSUME NEW k \in 1 .. Len(r), NEW l \in 1 .. Len(r), k < l,
                      IsChunk(r[k], s), IsChunk(r[l], s)
               PROVE  r[k].n < r[l].n
    OBVIOUS
  <2>1. k + 1 < l + 1
    BY <1>1
  <2>2. QED
    BY <2>1, <1>9 DEF InOrder
<1>12. \A k \in lo + 2 .. hi : \E l \in 1 .. Len(r) : r[l] = Out(s, k)
  <2> SUFFICES ASSUME NEW k \in lo + 2 .. hi
               PROVE  \E l \in 1 .. Len(r) : r[l] = Out(s, k)
    OBVIOUS
  <2>1. PICK l \in 1 .. Len(q) : q[l] = Out(s, k)
    BY DEF InOrder
  <2>2. q[l].n = k
    BY <2>1, EventFacts
  <2>3. l # 1
    BY <2>2, <1>8
  <2>4. l - 1 \in 1 .. Len(r) /\ r[l - 1] = q[l]
    BY <2>3, <1>1
  <2>5. QED
    BY <2>1, <2>4
<1>13. InOrder(r, s, lo + 1, hi)
  BY <1>10, <1>11, <1>12 DEF InOrder
<1>14. QED
  BY <1>3, <1>7, <1>13 DEF r

\* A sequence that begins with another event.
LEMMA InOrderTail ==
    ASSUME NEW q \in Seq(Event), q # <<>>, NEW s, ~IsChunk(Head(q), s),
           NEW lo, NEW hi, InOrder(q, s, lo, hi),
           \A k \in lo + 1 .. hi : IsChunk(Out(s, k), s)
    PROVE  InOrder(Tail(q), s, lo, hi)
<1> DEFINE r == Tail(q)
<1>1. /\ Head(q) = q[1]
      /\ Len(r) = Len(q) - 1 /\ Len(q) \in Nat \ {0}
      /\ \A i \in 1 .. Len(q) - 1 : r[i] = q[i + 1]
  BY RestOfTail
<1> HIDE DEF r
<1>2. \A k \in 1 .. Len(r) : k + 1 \in 1 .. Len(q) /\ r[k] = q[k + 1]
  BY <1>1
<1>3. \A k, l \in 1 .. Len(r) :
          k < l /\ IsChunk(r[k], s) /\ IsChunk(r[l], s) => r[k].n < r[l].n
  <2> SUFFICES ASSUME NEW k \in 1 .. Len(r), NEW l \in 1 .. Len(r), k < l,
                      IsChunk(r[k], s), IsChunk(r[l], s)
               PROVE  r[k].n < r[l].n
    OBVIOUS
  <2>1. k + 1 < l + 1
    BY <1>1
  <2>2. QED
    BY <2>1, <1>2 DEF InOrder
<1>4. \A k \in lo + 1 .. hi : \E l \in 1 .. Len(r) : r[l] = Out(s, k)
  <2> SUFFICES ASSUME NEW k \in lo + 1 .. hi
               PROVE  \E l \in 1 .. Len(r) : r[l] = Out(s, k)
    OBVIOUS
  <2>1. PICK l \in 1 .. Len(q) : q[l] = Out(s, k)
    BY DEF InOrder
  <2>2. l # 1
    BY <2>1, <1>1
  <2>3. l - 1 \in 1 .. Len(r) /\ r[l - 1] = q[l]
    BY <2>2, <1>1
  <2>4. QED
    BY <2>1, <2>3
<1>5. InOrder(r, s, lo, hi)
  BY <1>2, <1>3, <1>4 DEF InOrder
<1>6. QED
  BY <1>5 DEF r

-----------------------------------------------------------------------------
(* The inductive invariant *)

LEMMA IInvInit == Init => IInv
<1> SUFFICES ASSUME Init
             PROVE  IInv
    OBVIOUS
<1> USE ExecStreamAssumption DEF Init
<1>1. TypeOK
  <2>1. <<>> \in Seq(OutEvent) /\ <<>> \in Seq(ErrorEvent)
        /\ <<>> \in Seq(OutEvent \cup ErrorEvent \cup {Done})
        /\ Len(<<>>) <= 1
    OBVIOUS
  <2>2. /\ wrote \in [Source -> 0 .. MaxChunks]
        /\ copied \in [Source -> 0 .. MaxChunks]
    OBVIOUS
  <2>3. doneCh \in BOOLEAN
    OBVIOUS
  <2>4. QED
    BY <2>1, <2>2, <2>3 DEF TypeOK
<1>2. ~Sent("done") /\ ~Sent("error")
  BY DEF Sent
<1>3. RunnerInv /\ KillerInv /\ HandlerInv
  BY <1>2 DEF RunnerInv, KillerInv, HandlerInv, Before, Over, Signalled
<1>4. CommandInv /\ ErrorInv
  BY DEF CommandInv, ErrorInv, Over
<1>5. OrderInv
  BY InOrderEmpty DEF OrderInv
<1>6. QED
  BY <1>1, <1>3, <1>4, <1>5 DEF IInv

\* What FailWith makes of an empty errCh.
LEMMA OneError ==
    \A k \in 0 .. MaxChunks :
        /\ Append(<<>>, Error(k)) \in Seq(ErrorEvent)
        /\ Len(Append(<<>>, Error(k))) = 1
        /\ Append(<<>>, Error(k))[1] = Error(k)
<1>1. \A k \in 0 .. MaxChunks : Error(k) \in ErrorEvent
  BY DEF ErrorEvent
<1>2. QED
  BY <1>1

\* The goroutine's steps keep the types: errCh is empty before each error.
LEMMA TypeRunner == IInv /\ Runner => TypeOK'
<1> SUFFICES ASSUME IInv, Runner
             PROVE  TypeOK'
    OBVIOUS
<1> USE ExecStreamAssumption DEF TypeOK, worldVars, sshVars, copyVars
<1>1. TypeOK /\ (runner \notin Over => errCh = <<>>)
  BY DEF IInv, RunnerInv
<1>2. CASE ReadKey
  BY <1>1, <1>2 DEF ReadKey, Finish
<1>3. CASE Dial
  <2>1. errCh = <<>> /\ 0 \in 0 .. MaxChunks
    BY <1>1, <1>3 DEF Dial, Over
  <2>2. FailWith(0) => /\ errCh' \in Seq(ErrorEvent) /\ Len(errCh') <= 1
                       /\ runner' = "signalDone"
    BY <2>1, OneError DEF FailWith, Finish
  <2>3. QED
    BY <1>1, <1>3, <2>2 DEF Dial
<1>4. CASE NewSession
  <2>1. errCh = <<>> /\ 0 \in 0 .. MaxChunks
    BY <1>1, <1>4 DEF NewSession, Over
  <2>2. FailWith(0) => /\ errCh' \in Seq(ErrorEvent) /\ Len(errCh') <= 1
                       /\ runner' = "signalDone"
    BY <2>1, OneError DEF FailWith, Finish
  <2>3. QED
    BY <1>1, <1>4, <2>2 DEF NewSession
<1>5. CASE RegisterAfterFunc
  BY <1>1, <1>5 DEF RegisterAfterFunc
<1>6. CASE StartCommand
  <2>1. errCh = <<>> /\ 0 \in 0 .. MaxChunks
    BY <1>1, <1>6 DEF StartCommand, Over
  <2>2. FailWith(0) => /\ errCh' \in Seq(ErrorEvent) /\ Len(errCh') <= 1
                       /\ runner' = "signalDone"
    BY <2>1, OneError DEF FailWith, Finish
  <2>3. QED
    BY <1>1, <1>6, <2>2 DEF StartCommand, AfterStart
<1>7. CASE RunReturns
  <2>1. errCh = <<>> /\ LastRecord \in 0 .. MaxChunks
    BY <1>1, <1>7 DEF RunReturns, Over, LastRecord, Source
  <2>2. FailWith(LastRecord) =>
          /\ errCh' \in Seq(ErrorEvent) /\ Len(errCh') <= 1
          /\ runner' = "signalDone"
    BY <2>1, OneError DEF FailWith, Finish
  <2>3. QED
    BY <1>1, <1>7, <2>2 DEF RunReturns, Finish
<1>8. CASE SignalDone
  BY <1>1, <1>8 DEF SignalDone, Signal
<1>9. CASE CloseChannels
  BY <1>1, <1>9 DEF CloseChannels
<1>10. QED
  BY <1>2, <1>3, <1>4, <1>5, <1>6, <1>7, <1>8, <1>9 DEF Runner

LEMMA TypeCopy == ASSUME TypeOK, NEW s \in Source, Copy(s) PROVE TypeOK'
<1> USE ExecStreamAssumption DEF TypeOK, worldVars, sshVars
<1>1. CASE copied[s] < wrote[s] /\ Put(s) /\ UNCHANGED copying
           /\ copied' = [copied EXCEPT ![s] = @ + 1]
  <2>1. copied[s] + 1 \in 1 .. MaxChunks
    BY <1>1
  <2>2. outCh' \in Seq(OutEvent)
    BY <1>1, <2>1, EventFacts, AppendProperties DEF Put
  <2>3. copied' \in [Source -> 0 .. MaxChunks]
    BY <1>1, <2>1
  <2>4. QED
    BY <1>1, <2>2, <2>3 DEF Copy
<1>2. CASE copying' = copying \ {s} /\ UNCHANGED <<copied, outCh>>
  BY <1>2 DEF Copy
<1>3. QED
  BY <1>1, <1>2 DEF Copy

LEMMA TypeHandler == TypeOK /\ Handler => TypeOK'
<1> SUFFICES ASSUME TypeOK, Handler
             PROVE  TypeOK'
    OBVIOUS
<1> USE DEF TypeOK, worldVars, sshVars, copyVars
<1>1. \A e \in Event : Send(e) => stream' \in Seq(Event)
  BY AppendProperties DEF Send, Event
<1>2. CASE Decode
  BY <1>2 DEF Decode
<1>3. CASE SelectDone
  <2>1. /\ UNCHANGED <<worldVars, sshVars, copyVars, runner, killer, errCh,
                      stream>>
        /\ handler' = "leave" /\ doneCh' \in BOOLEAN
    BY <1>3 DEF SelectDone
  <2>2. QED
    BY <2>1
<1>4. CASE SelectErr
  <2>1. Head(errCh) \in Event /\ Tail(errCh) \in Seq(ErrorEvent)
        /\ Len(Tail(errCh)) <= 1
    BY <1>4, RestOfTail, ErrorEventFacts DEF SelectErr
  <2>2. QED
    BY <1>1, <1>4, <2>1 DEF SelectErr, Event
<1>5. CASE SelectOut
  <2>1. Head(outCh) \in Event /\ Tail(outCh) \in Seq(OutEvent)
    BY <1>5, RestOfTail, OutEventFacts DEF SelectOut
  <2>2. QED
    BY <1>1, <1>5, <2>1 DEF SelectOut, Event
<1>6. CASE SelectCtx
  BY <1>6 DEF SelectCtx
<1>7. CASE Leave
  <2>1. Done \in Event
    BY DEF Event
  <2>2. QED
    BY <1>1, <1>7, <2>1 DEF Leave, Event
<1>8. QED
  BY <1>2, <1>3, <1>4, <1>5, <1>6, <1>7 DEF Handler

LEMMA TypeEnvironment == TypeOK /\ Environment => TypeOK'
<1> SUFFICES ASSUME TypeOK, Environment
             PROVE  TypeOK'
    OBVIOUS
<1> USE ExecStreamAssumption DEF TypeOK, copyVars
<1>1. UNCHANGED <<conn, copyVars, handler, runner, killer, errCh, doneCh,
                  stream>>
  BY DEF Environment
<1>2. CASE ClientLeaves
  BY <1>1, <1>2 DEF ClientLeaves
<1>3. ASSUME NEW s \in Source, CommandWrites(s)
      PROVE  TypeOK'
  BY <1>1, <1>3 DEF CommandWrites
<1>4. CASE CommandExits
  BY <1>1, <1>4 DEF CommandExits
<1>5. CASE GuestChanges
  BY <1>1, <1>5 DEF GuestChanges
<1>6. QED
  BY <1>2, <1>3, <1>4, <1>5 DEF Environment

LEMMA TypeNext == IInv /\ [Next]_vars => TypeOK'
<1> SUFFICES ASSUME IInv, [Next]_vars
             PROVE  TypeOK'
    OBVIOUS
<1>1. TypeOK
  BY DEF IInv
<1>2. CASE Killer
  BY <1>1, <1>2 DEF TypeOK, Killer, KillerSignals, KillerCloses, ClosedConn,
                    worldVars, copyVars
<1>3. CASE UNCHANGED vars
  BY <1>1, <1>3 DEF TypeOK, vars, worldVars, sshVars, copyVars
<1>4. QED
  BY <1>1, <1>2, <1>3, TypeRunner, TypeCopy, TypeHandler, TypeEnvironment
     DEF Next

LEMMA SentSame == stream' = stream => \A x : Sent(x)' <=> Sent(x)
BY DEF Sent

\* Only SelectErr and SelectOut send what is in a channel, only Leave the mark.
LEMMA SentNext ==
    ASSUME TypeOK, [Next]_vars
    PROVE  /\ Sent("done")' => Sent("done") \/ (Leave /\ client = "connected")
           /\ Sent("error")' => Sent("error") \/ SelectErr
<1>1. CASE SelectErr
  <2>1. errCh # <<>> /\ Send(Head(errCh)) /\ stream \in Seq(Event)
    BY <1>1 DEF SelectErr, TypeOK, Event
  <2>2. Head(errCh) \in ErrorEvent
    BY <2>1, RestOfTail DEF TypeOK
  <2>3. QED
    BY <1>1, <2>1, <2>2, ErrorEventFacts, SendSent
<1>2. CASE SelectOut
  <2>1. outCh # <<>> /\ Send(Head(outCh)) /\ stream \in Seq(Event)
    BY <1>2 DEF SelectOut, TypeOK, Event
  <2>2. Head(outCh) \in OutEvent
    BY <2>1, RestOfTail DEF TypeOK
  <2>3. QED
    BY <2>1, <2>2, OutEventFacts, SendSent
<1>3. CASE Leave
  <2>1. CASE client = "gone"
    BY <1>3, <2>1, SentSame DEF Leave
  <2>2. CASE client # "gone"
    <3>1. Send(Done) /\ stream \in Seq(Event) /\ Done \in Event
      BY <1>3, <2>2 DEF Leave, TypeOK, Event
    <3>2. QED
      BY <1>3, <2>2, <3>1, EventFacts, SendSent DEF TypeOK
  <2>3. QED
    BY <2>1, <2>2
<1>4. CASE stream' = stream
  BY <1>4, SentSame
<1>5. stream' = stream \/ SelectErr \/ SelectOut \/ Leave
  <2>1. Runner => stream' = stream
    BY DEF Runner, ReadKey, Dial, NewSession, RegisterAfterFunc, StartCommand,
           RunReturns, SignalDone, CloseChannels
  <2>2. ASSUME NEW s \in Source, Copy(s)
        PROVE  stream' = stream
    BY <2>2 DEF Copy
  <2>3. Killer => stream' = stream
    BY DEF Killer
  <2>4. Decode \/ SelectDone \/ SelectCtx => stream' = stream
    BY DEF Decode, SelectDone, SelectCtx
  <2>5. Environment => stream' = stream
    BY DEF Environment
  <2>6. UNCHANGED vars => stream' = stream
    BY DEF vars
  <2>7. QED
    BY <2>1, <2>2, <2>3, <2>4, <2>5, <2>6 DEF Next, Handler
<1>6. QED
  BY <1>1, <1>2, <1>3, <1>4, <1>5

\* The positions of the goroutine, the callback and the handler keep their
\* meaning.
LEMMA PlacesNext ==
    IInv /\ [Next]_vars => RunnerInv' /\ KillerInv' /\ HandlerInv'
<1> SUFFICES ASSUME IInv, [Next]_vars
             PROVE  RunnerInv' /\ KillerInv' /\ HandlerInv'
    OBVIOUS
<1>1. TypeOK /\ RunnerInv /\ KillerInv /\ HandlerInv
  BY DEF IInv
<1>2. /\ Sent("done")' => Sent("done") \/ (Leave /\ client = "connected")
      /\ Sent("error")' => Sent("error") \/ SelectErr
  BY <1>1, SentNext
<1> USE <1>1, <1>2
    DEF RunnerInv, KillerInv, HandlerInv, Before, Over, Signalled, TypeOK,
        worldVars, sshVars, copyVars
<1>3. CASE Runner
  <2>1. ~Leave /\ ~SelectErr
    BY <1>3 DEF Runner, ReadKey, Dial, NewSession, RegisterAfterFunc,
            StartCommand, RunReturns, SignalDone, CloseChannels, Leave,
            SelectErr, Finish, FailWith, AfterStart
  <2> USE <2>1
  <2>2. CASE ReadKey
    BY <2>2 DEF ReadKey, Finish
  <2>3. CASE Dial
    BY <2>3 DEF Dial, Finish, FailWith
  <2>4. CASE NewSession
    BY <2>4 DEF NewSession, Answers, Finish, FailWith
  <2>5. CASE RegisterAfterFunc
    BY <2>5 DEF RegisterAfterFunc
  <2>6. CASE StartCommand
    BY <2>6 DEF StartCommand, AfterStart, Finish, FailWith
  <2>7. CASE RunReturns
    BY <2>7 DEF RunReturns, CopiersDone, Finish, FailWith
  <2>8. CASE SignalDone
    BY <2>8 DEF SignalDone, Signal
  <2>9. CASE CloseChannels
    BY <2>9 DEF CloseChannels
  <2>10. QED
    BY <1>3, <2>2, <2>3, <2>4, <2>5, <2>6, <2>7, <2>8, <2>9 DEF Runner
<1>4. ASSUME NEW s \in Source, Copy(s)
      PROVE  RunnerInv' /\ KillerInv' /\ HandlerInv'
  <2>1. ~Leave /\ ~SelectErr
    BY <1>4 DEF Copy, Leave, SelectErr
  <2>2. QED
    BY <1>4, <2>1 DEF Copy
<1>5. CASE Killer
  <2>1. ~Leave /\ ~SelectErr
    BY <1>5 DEF Killer, KillerSignals, KillerCloses, Leave, SelectErr
  <2>2. CASE KillerSignals
    BY <1>5, <2>1, <2>2 DEF Killer, KillerSignals, CtxDone
  <2>3. CASE KillerCloses
    BY <1>5, <2>1, <2>3 DEF Killer, KillerCloses, ClosedConn
  <2>4. QED
    BY <1>5, <2>2, <2>3 DEF Killer
<1>6. CASE Handler
  <2>1. CASE Decode
    BY <2>1 DEF Decode, Leave, SelectErr
  <2>2. CASE SelectDone
    BY <2>2 DEF SelectDone, Leave, SelectErr
  <2>3. CASE SelectErr
    BY <2>3, RestOfTail DEF SelectErr, Leave
  <2>4. CASE SelectOut
    BY <2>4 DEF SelectOut, SelectErr, Leave
  <2>5. CASE SelectCtx
    BY <2>5 DEF SelectCtx, ClientLeft, SelectErr, Leave
  <2>6. CASE Leave
    BY <2>6 DEF SelectErr, Leave
  <2>7. QED
    BY <1>6, <2>1, <2>2, <2>3, <2>4, <2>5, <2>6 DEF Handler
<1>7. CASE Environment
  <2>1. ~Leave /\ ~SelectErr
    BY <1>7 DEF Environment, Leave, SelectErr
  <2>2. CASE ClientLeaves
    BY <1>7, <2>1, <2>2 DEF Environment, ClientLeaves
  <2>3. ASSUME NEW s \in Source, CommandWrites(s)
        PROVE  RunnerInv' /\ KillerInv' /\ HandlerInv'
    BY <1>7, <2>1, <2>3 DEF Environment, CommandWrites
  <2>4. CASE CommandExits
    BY <1>7, <2>1, <2>4 DEF Environment, CommandExits
  <2>5. CASE GuestChanges
    BY <1>7, <2>1, <2>5 DEF Environment, GuestChanges
  <2>6. QED
    BY <1>7, <2>2, <2>3, <2>4, <2>5 DEF Environment
<1>8. CASE UNCHANGED vars
  BY <1>8, SentSame DEF vars
<1>9. QED
  BY <1>3, <1>4, <1>5, <1>6, <1>7, <1>8 DEF Next

\* A run is over when its command is, unless the command cannot be reached; a
\* copier ends when its pipe is empty, unless the connection is lost.
LEMMA CommandNext == IInv /\ [Next]_vars => CommandInv'
<1> SUFFICES ASSUME IInv, [Next]_vars
             PROVE  CommandInv'
    OBVIOUS
<1>1. TypeOK /\ RunnerInv /\ KillerInv /\ HandlerInv /\ CommandInv
  BY DEF IInv
<1>2. Sent("done")' => Sent("done") \/ (Leave /\ client = "connected")
  BY <1>1, SentNext
<1>3. Leave => client = "gone" \/ runner \notin {"wait"}
  BY <1>1 DEF Leave, HandlerInv, Signalled
<1> USE DEF CommandInv, Before, Over, Signalled, TypeOK, Broken, worldVars,
            sshVars, copyVars
<1>4. CASE Runner
  <2>1. ~Leave
    BY <1>4 DEF Runner, ReadKey, Dial, NewSession, RegisterAfterFunc,
            StartCommand, RunReturns, SignalDone, CloseChannels, Leave,
            Finish, FailWith, AfterStart
  <2> USE <2>1
  <2>2. CASE ReadKey
    BY <1>1, <1>2, <2>2 DEF ReadKey, Finish, RunnerInv
  <2>3. CASE Dial
    BY <1>1, <1>2, <2>3 DEF Dial, Finish, FailWith, RunnerInv
  <2>4. CASE NewSession
    BY <1>1, <1>2, <2>4 DEF NewSession, Finish, FailWith, RunnerInv
  <2>5. CASE RegisterAfterFunc
    BY <1>1, <1>2, <2>5 DEF RegisterAfterFunc, RunnerInv
  <2>6. CASE StartCommand
    BY <1>1, <1>2, <2>6 DEF StartCommand, AfterStart, Finish, FailWith,
                            RunnerInv
  <2>7. CASE RunReturns
    BY <1>1, <1>2, <2>7 DEF RunReturns, CopiersDone, ExitKnown, Answers,
                            Finish, FailWith, RunnerInv, HandlerInv
  <2>8. CASE SignalDone
    BY <1>1, <1>2, <2>8 DEF SignalDone, Signal
  <2>9. CASE CloseChannels
    BY <1>1, <1>2, <2>9 DEF CloseChannels
  <2>10. QED
    BY <1>4, <2>2, <2>3, <2>4, <2>5, <2>6, <2>7, <2>8, <2>9 DEF Runner
<1>5. ASSUME NEW s \in Source, Copy(s)
      PROVE  CommandInv'
  <2>1. ~Leave
    BY <1>5 DEF Copy, Leave
  <2>2. QED
    BY <1>1, <1>2, <1>5, <2>1 DEF Copy
<1>6. CASE Killer
  <2>1. ~Leave
    BY <1>6 DEF Killer, KillerSignals, KillerCloses, Leave
  <2>2. QED
    BY <1>1, <1>2, <1>6, <2>1 DEF Killer, KillerSignals, KillerCloses,
                                  ClosedConn
<1>7. CASE Handler
  <2>1. UNCHANGED <<client, guest, wrote, copied, copying, conn, cmd>>
    BY <1>7 DEF Handler, Decode, SelectDone, SelectErr, SelectOut, SelectCtx,
            Leave
  <2>2. runner' = runner \/ (runner = "none" /\ runner' = "key")
    BY <1>1, <1>7 DEF Handler, Decode, SelectDone, SelectErr, SelectOut,
                      SelectCtx, Leave, HandlerInv
  <2>3. QED
    BY <1>1, <1>2, <1>3, <2>1, <2>2
<1>8. CASE Environment
  <2>1. ~Leave
    BY <1>8 DEF Environment, Leave
  <2>2. CASE ClientLeaves
    BY <1>1, <1>2, <1>8, <2>1, <2>2 DEF Environment, ClientLeaves
  <2>3. ASSUME NEW s \in Source, CommandWrites(s)
        PROVE  CommandInv'
    BY <1>1, <1>2, <1>8, <2>1, <2>3 DEF Environment, CommandWrites
  <2>4. CASE CommandExits
    BY <1>1, <1>2, <1>8, <2>1, <2>4 DEF Environment, CommandExits
  <2>5. CASE GuestChanges
    BY <1>1, <1>2, <1>8, <2>1, <2>5 DEF Environment, GuestChanges
  <2>6. QED
    BY <1>8, <2>2, <2>3, <2>4, <2>5 DEF Environment
<1>9. CASE UNCHANGED vars
  BY <1>1, <1>9, SentSame DEF vars
<1>10. QED
  BY <1>4, <1>5, <1>6, <1>7, <1>8, <1>9 DEF Next

\* Every error that is put on errCh or sent tells what stderr said last.
LEMMA ErrorNext == IInv /\ [Next]_vars => ErrorInv'
<1> SUFFICES ASSUME IInv, [Next]_vars
             PROVE  ErrorInv'
    OBVIOUS
<1>1. TypeOK /\ RunnerInv /\ HandlerInv /\ CommandInv /\ ErrorInv
  BY DEF IInv
<1>2. UNCHANGED <<worldVars, cmd>> => (\A e : Tells(e) => Tells(e)')
  BY DEF Tells, worldVars
<1>3. CASE Runner
  <2>1. stream' = stream /\ UNCHANGED worldVars
    BY <1>3 DEF Runner, ReadKey, Dial, NewSession, RegisterAfterFunc,
            StartCommand, RunReturns, SignalDone, CloseChannels
  <2>2. CASE errCh' = errCh /\ cmd' = cmd
    BY <1>1, <1>2, <2>1, <2>2 DEF ErrorInv
  <2>3. CASE StartCommand /\ errCh' = errCh
    <3>1. errCh = <<>> /\ ~Sent("error")
      BY <1>1, <2>3 DEF StartCommand, RunnerInv, Over
    <3>2. QED
      BY <2>1, <2>3, <3>1 DEF ErrorInv, Sent
  <2>4. ASSUME Dial \/ NewSession \/ StartCommand, FailWith(0)
        PROVE  ErrorInv'
    <3>1. errCh = <<>> /\ ~Sent("error") /\ cmd = "none"
      BY <1>1, <2>4 DEF Dial, NewSession, StartCommand, RunnerInv, Over,
                        Before
    <3>2. errCh' = <<Error(0)>>
      BY <2>4, <3>1 DEF FailWith
    <3>3. cmd' # "failed"
      BY <2>4, <3>1 DEF Dial, NewSession, StartCommand, sshVars
    <3>4. QED
      BY <2>1, <3>1, <3>2, <3>3 DEF ErrorInv, Sent, Tells
  <2>5. ASSUME RunReturns, FailWith(LastRecord)
        PROVE  ErrorInv'
    <3>1. errCh = <<>> /\ ~Sent("error") /\ runner = "wait" /\ copying = {}
          /\ cmd' = cmd
      BY <1>1, <2>5 DEF RunReturns, RunnerInv, Over, CopiersDone
    <3>2. errCh' = <<Error(LastRecord)>>
      BY <2>5, <3>1 DEF FailWith
    <3>3. guest' # "down" /\ client' = "connected"
          => copied["stderr"] = wrote'["stderr"]
      <4>1. SUFFICES ASSUME guest # "down", client = "connected"
                     PROVE  copied["stderr"] = wrote["stderr"]
        BY <2>1 DEF worldVars
      <4>2. ~Broken
        BY <1>1, <3>1, <4>1 DEF Broken, RunnerInv
      <4>3. QED
        BY <1>1, <3>1, <4>2 DEF CommandInv, Source
    <3>4. errCh'[1].n = copied["stderr"] /\ DOMAIN errCh' = {1}
      <4>1. copied["stderr"] \in 0 .. MaxChunks
        BY <1>1 DEF TypeOK, Source
      <4>2. QED
        BY <3>2, <4>1, EventFacts DEF LastRecord
    <3>5. QED
      BY <2>1, <3>1, <3>3, <3>4 DEF ErrorInv, Sent, Tells
  <2>6. QED
    BY <1>3, <2>2, <2>3, <2>4, <2>5 DEF Runner, ReadKey, Dial, NewSession,
       RegisterAfterFunc, StartCommand, RunReturns, SignalDone,
       CloseChannels, sshVars
<1>4. ASSUME NEW s \in Source, Copy(s)
      PROVE  ErrorInv'
  BY <1>1, <1>2, <1>4 DEF Copy, ErrorInv, sshVars
<1>5. CASE Killer
  <2>1. \A e : Tells(e) => Tells(e)'
    BY <1>5 DEF Killer, KillerSignals, KillerCloses, Tells, worldVars
  <2>2. QED
    BY <1>1, <1>5, <2>1 DEF Killer, ErrorInv
<1>6. CASE Handler
  <2>1. \A e : Tells(e) => Tells(e)'
    BY <1>6, <1>2 DEF Handler, Decode, SelectDone, SelectErr, SelectOut,
            SelectCtx, Leave, sshVars
  <2>2. CASE UNCHANGED <<errCh, stream>>
    BY <1>1, <2>1, <2>2 DEF ErrorInv
  <2>3. ASSUME NEW e \in Event, Send(e), e.event # "error" \/ Tells(e),
               \A i \in DOMAIN errCh' : Tells(errCh'[i])
        PROVE  ErrorInv'
    <3>1. stream \in Seq(Event)
      BY <1>1 DEF TypeOK, Event
    <3>2. /\ Len(stream') = Len(stream) + 1 /\ stream' \in Seq(Event)
          /\ \A i \in 1 .. Len(stream) : stream'[i] = stream[i]
          /\ stream'[Len(stream) + 1] = e
      BY <2>3, <3>1, LastOfAppend DEF Send
    <3>3. /\ DOMAIN stream = 1 .. Len(stream) /\ Len(stream) \in Nat
          /\ DOMAIN stream' = 1 .. Len(stream) + 1
      BY <3>1, <3>2, LenProperties
    <3>4. \A i \in DOMAIN stream' :
              stream'[i].event = "error" => Tells(stream'[i])
      BY <1>1, <2>3, <3>2, <3>3 DEF ErrorInv
    <3>5. QED
      BY <2>1, <2>3, <3>4 DEF ErrorInv
  <2>4. CASE SelectErr
    <3>1. errCh \in Seq(ErrorEvent) /\ errCh # <<>> /\ Len(errCh) <= 1
      BY <1>1, <2>4 DEF SelectErr, TypeOK
    <3>2. /\ Head(errCh) = errCh[1] /\ Head(errCh) \in ErrorEvent
          /\ Len(Tail(errCh)) = 0 /\ Tail(errCh) \in Seq(ErrorEvent)
          /\ 1 \in 1 .. Len(errCh)
      <4>1. /\ Head(errCh) = errCh[1] /\ errCh[1] \in ErrorEvent
            /\ Tail(errCh) \in Seq(ErrorEvent)
            /\ Len(Tail(errCh)) = Len(errCh) - 1 /\ Len(errCh) \in Nat \ {0}
        BY <3>1, RestOfTail
      <4>2. Len(errCh) = 1
        BY <3>1, <4>1
      <4>3. QED
        BY <4>1, <4>2
    <3>3. Tells(Head(errCh))
      BY <1>1, <3>1, <3>2, LenProperties DEF ErrorInv
    <3>4. DOMAIN errCh' = {}
      BY <2>4, <3>2, LenProperties DEF SelectErr
    <3>5. QED
      BY <2>3, <2>4, <3>2, <3>3, <3>4, ErrorEventFacts DEF SelectErr
  <2>5. CASE SelectOut
    <3>1. Head(outCh) \in OutEvent
      BY <1>1, <2>5, RestOfTail DEF SelectOut, TypeOK
    <3>2. QED
      BY <1>1, <2>3, <2>5, <3>1, OutEventFacts DEF SelectOut, ErrorInv
  <2>6. CASE Leave
    BY <1>1, <2>2, <2>3, <2>6, EventFacts DEF Leave, ErrorInv, Event
  <2>7. QED
    BY <1>6, <2>2, <2>4, <2>5, <2>6 DEF Handler, Decode, SelectDone,
       SelectCtx
<1>7. CASE Environment
  <2>1. UNCHANGED <<errCh, stream>>
    BY <1>7 DEF Environment
  <2>2. CASE ClientLeaves \/ GuestChanges
    <3>1. \A e : Tells(e) => Tells(e)'
      BY <1>1, <2>2 DEF ClientLeaves, GuestChanges, Tells, TypeOK
    <3>2. QED
      BY <1>1, <2>1, <3>1 DEF ErrorInv
  <2>3. CASE cmd = "running" /\ UNCHANGED <<client, guest>>
    <3>1. CASE runner \in Over
      <4>1. guest = "down" \/ client = "gone"
        BY <1>1, <2>3, <3>1 DEF CommandInv
      <4>2. QED
        BY <2>1, <2>3, <4>1 DEF ErrorInv, Tells
    <3>2. CASE runner \notin Over
      BY <1>1, <2>1, <3>2 DEF RunnerInv, ErrorInv, Sent
    <3>3. QED
      BY <3>1, <3>2
  <2>4. QED
    BY <1>7, <2>2, <2>3 DEF Environment, CommandWrites, CommandExits
<1>8. CASE UNCHANGED vars
  BY <1>1, <1>2, <1>8 DEF vars, ErrorInv, sshVars
<1>9. QED
  BY <1>3, <1>4, <1>5, <1>6, <1>7, <1>8 DEF Next

\* One event more in the stream takes the chunk it is from the channel.
LEMMA OrderNext == IInv /\ [Next]_vars => OrderInv'
<1> SUFFICES ASSUME IInv, [Next]_vars
             PROVE  OrderInv'
    OBVIOUS
<1> USE ExecStreamAssumption
<1>1. TypeOK /\ OrderInv
  BY DEF IInv
<1>2. stream \in Seq(Event) /\ outCh \in Seq(OutEvent) /\ outCh \in Seq(Event)
      /\ copied \in [Source -> 0 .. MaxChunks]
  BY <1>1, OutEventFacts, SeqMonotonic DEF TypeOK, Event
<1>3. CASE UNCHANGED <<stream, outCh, copied>>
  BY <1>1, <1>3 DEF OrderInv
<1>4. ASSUME NEW t \in Source, Copy(t), ~UNCHANGED <<outCh, copied>>
      PROVE  OrderInv'
  <2>1. /\ stream' = stream /\ outCh' = Append(outCh, Out(t, copied[t] + 1))
        /\ copied' = [copied EXCEPT ![t] = @ + 1]
        /\ copied[t] + 1 \in 1 .. MaxChunks
    BY <1>1, <1>2, <1>4 DEF Copy, Put, TypeOK
  <2>2. SUFFICES ASSUME NEW s \in Source
                 PROVE  \E h \in 0 .. copied'[s] :
                            /\ InOrder(stream, s, 0, h)
                            /\ InOrder(outCh', s, h, copied'[s])
    BY <2>1 DEF OrderInv
  <2>3. PICK h \in 0 .. copied[s] : /\ InOrder(stream, s, 0, h)
                                    /\ InOrder(outCh, s, h, copied[s])
    BY <1>1 DEF OrderInv
  <2>4. h \in Nat /\ copied[s] \in Nat /\ h <= copied[s]
    BY <1>2, <2>3
  <2>5. CASE s = t
    <3>1. copied'[s] = copied[s] + 1
      BY <1>2, <2>1, <2>5
    <3>2. InOrder(outCh', s, h, copied'[s])
      BY <1>2, <2>1, <2>3, <2>4, <2>5, <3>1, InOrderAppend
    <3>3. QED
      BY <2>3, <2>4, <3>1, <3>2
  <2>6. CASE s # t
    <3>1. copied'[s] = copied[s]
      BY <1>2, <2>1, <2>6
    <3>2. /\ Out(t, copied[t] + 1) \in Event
          /\ ~IsChunk(Out(t, copied[t] + 1), s)
      BY <2>1, <2>6, EventFacts DEF IsChunk, Event
    <3>3. InOrder(outCh', s, h, copied'[s])
      BY <1>2, <2>1, <2>3, <3>1, <3>2, InOrderOther
    <3>4. QED
      BY <2>3, <3>1, <3>3
  <2>7. QED
    BY <2>5, <2>6
<1>5. ASSUME NEW e \in Event, Send(e), e.event # "out",
             UNCHANGED <<outCh, copied>>
      PROVE  OrderInv'
  <2>1. \A s \in Source, h \in Nat :
            InOrder(stream, s, 0, h) => InOrder(stream', s, 0, h)
    BY <1>2, <1>5, InOrderOther DEF IsChunk, Send
  <2>2. \A s \in Source : 0 .. copied[s] \subseteq Nat
    BY <1>2
  <2>3. QED
    BY <1>1, <1>5, <2>1, <2>2 DEF OrderInv
<1>6. CASE SelectOut
  <2> DEFINE e == Head(outCh)
  <2>1. /\ outCh # <<>> /\ stream' = Append(stream, e) /\ outCh' = Tail(outCh)
        /\ copied' = copied
    BY <1>6 DEF SelectOut, Send
  <2>2. e \in OutEvent /\ e \in Event
    BY <1>2, <2>1, RestOfTail, OutEventFacts
  <2>3. SUFFICES ASSUME NEW s \in Source
                 PROVE  \E h \in 0 .. copied[s] :
                            /\ InOrder(stream', s, 0, h)
                            /\ InOrder(outCh', s, h, copied[s])
    BY <2>1 DEF OrderInv
  <2>4. PICK h \in 0 .. copied[s] : /\ InOrder(stream, s, 0, h)
                                    /\ InOrder(outCh, s, h, copied[s])
    BY <1>1 DEF OrderInv
  <2>5. h \in Nat /\ copied[s] \in 0 .. MaxChunks /\ h <= copied[s]
    BY <1>2, <2>4
  <2>6. CASE IsChunk(e, s)
    <3>1. h < copied[s] /\ e = Out(s, h + 1)
          /\ InOrder(outCh', s, h + 1, copied[s])
      BY <1>2, <2>1, <2>4, <2>5, <2>6, InOrderHead
    <3>2. h + 1 \in 1 .. MaxChunks /\ h + 1 \in 0 .. copied[s]
      BY <2>5, <3>1
    <3>3. InOrder(stream', s, 0, h + 1)
      BY <1>2, <2>1, <2>4, <2>5, <3>1, <3>2, InOrderAppend
    <3>4. QED
      BY <3>1, <3>2, <3>3
  <2>7. CASE ~IsChunk(e, s)
    <3>1. \A k \in h + 1 .. copied[s] : IsChunk(Out(s, k), s)
      BY <2>5, EventFacts DEF IsChunk
    <3>2. InOrder(outCh', s, h, copied[s])
      BY <1>2, <2>1, <2>4, <2>7, <3>1, InOrderTail
    <3>3. InOrder(stream', s, 0, h)
      BY <1>2, <2>1, <2>2, <2>4, <2>7, InOrderOther
    <3>4. QED
      BY <3>2, <3>3
  <2>8. QED
    BY <2>6, <2>7
<1>7. CASE SelectErr
  <2>1. Head(errCh) \in ErrorEvent
    BY <1>1, <1>7, RestOfTail DEF SelectErr, TypeOK
  <2>2. QED
    BY <1>5, <1>7, <2>1, ErrorEventFacts DEF SelectErr, copyVars
<1>8. CASE Leave
  BY <1>3, <1>5, <1>8, EventFacts DEF Leave, copyVars, Event
<1>9. Runner \/ Killer \/ Decode \/ SelectDone \/ SelectCtx \/ Environment
      \/ UNCHANGED vars => UNCHANGED <<stream, outCh, copied>>
  BY DEF Runner, ReadKey, Dial, NewSession, RegisterAfterFunc, StartCommand,
         RunReturns, SignalDone, CloseChannels, Killer, Decode, SelectDone,
         SelectCtx, Environment, vars, copyVars
<1>10. \A s \in Source : Copy(s) => stream' = stream
  BY DEF Copy
<1>11. QED
  BY <1>3, <1>4, <1>6, <1>7, <1>8, <1>9, <1>10 DEF Next, Handler

-----------------------------------------------------------------------------
(* The theorems *)

LEMMA Invariance == Spec => []IInv
<1>1. IInv /\ [Next]_vars => IInv'
  BY TypeNext, PlacesNext, CommandNext, ErrorNext, OrderNext DEF IInv
<1>2. QED
  BY IInvInit, <1>1, PTL DEF Spec

\* The variables keep their types; in particular errCh, of capacity one, never
\* holds two errors, so that exec never blocks on it (exec.go:27-81).
THEOREM TypeCorrect == Spec => []TypeOK
<1>1. IInv => TypeOK
  BY DEF IInv
<1>2. QED
  BY <1>1, Invariance, PTL

\* The client gets each pipe's output in order, none twice and none skipped:
\* chWriter, the unbounded channel and the select keep it (exec.go:132-175).
THEOREM OutputInOrder == Spec => []OutInOrder
<1>1. IInv => OutInOrder
  <2> SUFFICES ASSUME IInv, NEW i \in DOMAIN stream, stream[i].event = "out"
               PROVE  /\ \A j \in 1 .. i - 1 :
                             stream[j].event = "out"
                             /\ stream[j].src = stream[i].src
                             => stream[j].n < stream[i].n
                      /\ \A k \in 1 .. stream[i].n - 1 :
                             \E j \in 1 .. i - 1 :
                                 stream[j] = Out(stream[i].src, k)
    BY DEF OutInOrder
  <2> DEFINE s == stream[i].src
  <2>1. stream \in Seq(Event) /\ i \in 1 .. Len(stream) /\ Len(stream) \in Nat
    BY LenProperties DEF IInv, TypeOK, Event
  <2>2. stream[i] \in OutEvent
    BY <2>1, ElementOfSeq, OutIsOutEvent
  <2>3. s \in Source /\ stream[i].n \in 1 .. MaxChunks /\ IsChunk(stream[i], s)
    BY <2>2, OutEventFacts DEF IsChunk
  <2>4. PICK h \in 0 .. copied[s] : InOrder(stream, s, 0, h)
    BY <2>3 DEF IInv, OrderInv
  <2>5. copied[s] \in 0 .. MaxChunks
    BY <2>3 DEF IInv, TypeOK
  <2> HIDE DEF s
  <2>6. stream[i].n <= h
    BY <2>1, <2>3, <2>4 DEF InOrder
  <2>7. ASSUME NEW j \in 1 .. i - 1, IsChunk(stream[j], s)
        PROVE  stream[j].n < stream[i].n
    BY <2>1, <2>3, <2>4, <2>7 DEF InOrder
  <2>8. ASSUME NEW k \in 1 .. stream[i].n - 1
        PROVE  \E j \in 1 .. i - 1 : stream[j] = Out(s, k)
    <3>1. k \in 1 .. h /\ k \in 1 .. MaxChunks /\ k < stream[i].n
      BY <2>3, <2>4, <2>5, <2>6, ExecStreamAssumption
    <3>2. PICK j \in 1 .. Len(stream) : stream[j] = Out(s, k)
      BY <2>4, <3>1 DEF InOrder
    <3>3. IsChunk(stream[j], s) /\ stream[j].n = k
      BY <2>3, <3>1, <3>2, EventFacts DEF IsChunk
    <3>4. ~(i <= j)
      <4>1. i < j => stream[i].n < k
        BY <2>1, <2>3, <2>4, <3>3 DEF InOrder
      <4>2. stream[i].n \in Nat /\ k \in Nat /\ k < stream[i].n
        BY <2>3, <3>1
      <4>3. i # j /\ ~(i < j)
        BY <3>3, <4>1, <4>2
      <4>4. QED
        BY <2>1, <4>3
    <3>5. QED
      BY <2>1, <3>2, <3>4
  <2>9. QED
    BY <2>7, <2>8 DEF IsChunk, s
<1>2. QED
  BY <1>1, Invariance, PTL

\* "done" follows the end of the command: the token follows session.Run
\* (exec.go:111-121).
THEOREM DoneFollowsEnd == Spec => []DoneAfterEnd
<1>1. IInv => DoneAfterEnd
  BY DEF IInv, CommandInv, HandlerInv, DoneAfterEnd, Signalled, Over
<1>2. QED
  BY <1>1, Invariance, PTL

\* The error of a failed command quotes its last chunk of stderr: the copiers
\* have ended when the record is read (exec.go:69-72).
THEOREM ErrorIsLastStderr == Spec => []ErrorQuotesLastStderr
<1>1. IInv => ErrorQuotesLastStderr
  BY DEF IInv, ErrorInv, Tells, ErrorQuotesLastStderr
<1>2. QED
  BY <1>1, Invariance, PTL

-----------------------------------------------------------------------------
(* POST /exec implements CommandStream *)

\* What Heard says of a sequence that is one event longer.
LEMMA HeardAppend ==
    ASSUME NEW q \in Seq(Event), NEW e \in Event
    PROVE  Heard(Append(q, e)) =
             IF e.event = "out" THEN Append(Heard(q), e) ELSE Heard(q)
<1> DEFINE r == Append(q, e)
           n == Len(q)
           N == Cardinality(OutsTo(q, n))
<1>1. /\ r \in Seq(Event) /\ Len(r) = n + 1 /\ n \in Nat
      /\ \A i \in 1 .. n : r[i] = q[i]
      /\ r[n + 1] = e
  BY LastOfAppend, LenProperties
<1> HIDE DEF r, n
<1>2. \A i \in 1 .. n : OutsTo(r, i) = OutsTo(q, i)
  BY <1>1 DEF OutsTo
<1>3. OutsTo(r, n) = OutsTo(q, n)
  BY <1>1 DEF OutsTo
<1>4. OutsTo(r, n + 1) =
        IF e.event = "out" THEN OutsTo(q, n) \cup {n + 1} ELSE OutsTo(q, n)
  BY <1>1 DEF OutsTo
<1>5. \A i \in 0 .. n : /\ IsFiniteSet(OutsTo(q, i))
                        /\ OutsTo(q, i) \subseteq OutsTo(q, n)
                        /\ OutsTo(q, i) \in SUBSET (1 .. n)
  <2> SUFFICES ASSUME NEW i \in 0 .. n
               PROVE  /\ IsFiniteSet(OutsTo(q, i))
                      /\ OutsTo(q, i) \subseteq OutsTo(q, n)
                      /\ OutsTo(q, i) \in SUBSET (1 .. n)
    OBVIOUS
  <2>1. OutsTo(q, i) \in SUBSET (1 .. n)
        /\ OutsTo(q, i) \subseteq OutsTo(q, n)
    BY <1>1 DEF OutsTo
  <2>2. IsFiniteSet(1 .. n)
    BY <1>1, FS_Interval
  <2>3. QED
    BY <2>1, <2>2, FS_Subset
<1>6. N \in Nat
  BY <1>1, <1>5, FS_CardinalityType
<1>7. \A i \in 1 .. n : Cardinality(OutsTo(q, i)) <= N
  BY <1>1, <1>5, FS_Subset
<1> HIDE DEF N
<1>8. e.event = "out" => Cardinality(OutsTo(r, n + 1)) = N + 1
  <2>1. n + 1 \notin OutsTo(q, n)
    BY <1>1 DEF OutsTo
  <2>2. IsFiniteSet(OutsTo(q, n)) /\ N = Cardinality(OutsTo(q, n))
    BY <1>1, <1>5 DEF N
  <2>3. Cardinality(OutsTo(q, n) \cup {n + 1}) = N + 1
    BY <2>1, <2>2, FS_AddElement
  <2>4. QED
    BY <1>4, <2>3
<1>9. ASSUME NEW k \in 1 .. N
      PROVE  KthOut(r, k) = KthOut(q, k)
  <2>1. \A i \in 1 .. n : r[i] = q[i] /\ OutsTo(r, i) = OutsTo(q, i)
    BY <1>1, <1>2
  <2>2. OutsTo(q, n) \subseteq 1 .. n
    BY DEF OutsTo
  <2>3. CASE e.event # "out"
    <3>1. OutsTo(r, Len(r)) = OutsTo(q, n)
      BY <1>1, <1>4, <2>3
    <3>2. QED
      BY <2>1, <2>2, <3>1 DEF KthOut, n
  <2>4. CASE e.event = "out"
    <3>1. OutsTo(r, Len(r)) = OutsTo(q, n) \cup {n + 1}
      BY <1>1, <1>4, <2>4
    <3>2. Cardinality(OutsTo(r, n + 1)) # k
      BY <1>1, <1>6, <2>4, <1>8
    <3>3. {j \in OutsTo(r, Len(r)) : Cardinality(OutsTo(r, j)) = k}
            = {j \in OutsTo(q, n) : Cardinality(OutsTo(q, j)) = k}
      BY <2>1, <2>2, <3>1, <3>2
    <3>4. QED
      BY <2>1, <2>2, <3>3 DEF KthOut, n
  <2>5. QED
    BY <2>3, <2>4
<1>10. CASE e.event # "out"
  <2>1. Heard(q) = [k \in 1 .. N |-> TheOne(KthOut(q, k))]
    BY DEF Heard, N, n
  <2>2. Cardinality(OutsTo(r, Len(r))) = N
    BY <1>1, <1>4, <1>10 DEF N
  <2>3. Heard(r) = [k \in 1 .. N |-> TheOne(KthOut(r, k))]
    BY <2>2 DEF Heard
  <2>4. QED
    BY <1>9, <1>10, <2>1, <2>3 DEF r
<1>11. CASE e.event = "out"
  <2>1. Heard(q) = [k \in 1 .. N |-> TheOne(KthOut(q, k))]
    BY DEF Heard, N, n
  <2>2. Heard(r) = [k \in 1 .. N + 1 |-> TheOne(KthOut(r, k))]
    BY <1>1, <1>8, <1>11 DEF Heard
  <2>3. TheOne(KthOut(r, N + 1)) = e
    <3>1. {j \in OutsTo(r, Len(r)) : Cardinality(OutsTo(r, j)) = N + 1}
            = {n + 1}
      <4>1. OutsTo(r, Len(r)) = OutsTo(q, n) \cup {n + 1}
        BY <1>1, <1>4, <1>11
      <4>2. \A j \in OutsTo(q, n) : Cardinality(OutsTo(r, j)) # N + 1
        <5>1. \A j \in OutsTo(q, n) : j \in 1 .. n
          BY DEF OutsTo
        <5>2. \A j \in 1 .. n : Cardinality(OutsTo(q, j)) # N + 1
          <6>1. \A j \in 1 .. n : Cardinality(OutsTo(q, j)) \in Nat
            BY <1>1, <1>5, FS_CardinalityType
          <6>2. QED
            BY <1>6, <1>7, <6>1
        <5>3. QED
          BY <1>2, <5>1, <5>2
      <4>3. QED
        BY <1>8, <1>11, <4>1, <4>2
    <3>2. KthOut(r, N + 1) = {e}
      BY <1>1, <3>1 DEF KthOut
    <3>3. QED
      BY <3>2 DEF TheOne
  <2> DEFINE T == {TheOne(KthOut(q, k)) : k \in 1 .. N} \cup {e}
  <2>4. Heard(q) \in Seq(T) /\ Len(Heard(q)) = N
    BY <1>6, <2>1
  <2>5. /\ Append(Heard(q), e) \in [1 .. N + 1 -> T]
        /\ \A k \in 1 .. N : Append(Heard(q), e)[k] = TheOne(KthOut(q, k))
        /\ Append(Heard(q), e)[N + 1] = e
    <3>1. /\ Append(Heard(q), e) \in Seq(T)
          /\ Len(Append(Heard(q), e)) = N + 1
          /\ \A k \in 1 .. N : Append(Heard(q), e)[k] = Heard(q)[k]
          /\ Append(Heard(q), e)[N + 1] = e
      BY <1>6, <2>4, AppendProperties
    <3>2. Append(Heard(q), e) \in [1 .. N + 1 -> T]
      BY <3>1, LenProperties
    <3>3. QED
      BY <2>1, <3>1, <3>2
  <2>6. \A k \in 1 .. N + 1 : k \in 1 .. N \/ k = N + 1
    BY <1>6
  <2>7. Heard(r) = Append(Heard(q), e)
    BY <1>9, <2>2, <2>3, <2>5, <2>6
  <2>8. QED
    BY <1>11, <2>7 DEF r
<1>12. QED
  BY <1>10, <1>11

LEMMA HeardIsSeq ==
    ASSUME NEW q \in Seq(Event)
    PROVE  \E T : Heard(q) \in Seq(T)
<1> DEFINE N == Cardinality(OutsTo(q, Len(q)))
           T == {TheOne(KthOut(q, k)) : k \in 1 .. N}
<1>1. N \in Nat
  <2>1. OutsTo(q, Len(q)) \in SUBSET (1 .. Len(q)) /\ Len(q) \in Nat
    BY LenProperties DEF OutsTo
  <2>2. IsFiniteSet(OutsTo(q, Len(q)))
    <3>1. IsFiniteSet(1 .. Len(q))
      BY <2>1, FS_Interval
    <3>2. QED
      BY <2>1, <3>1, FS_Subset
  <2>3. QED
    BY <2>2, FS_CardinalityType
<1>2. Heard(q) = [k \in 1 .. N |-> TheOne(KthOut(q, k))]
  BY DEF Heard
<1> HIDE DEF N
<1>3. Heard(q) \in Seq(T)
  BY <1>1, <1>2
<1>4. QED
  BY <1>3

LEMMA ConcatAppend ==
    ASSUME NEW S, NEW a \in Seq(S), NEW b \in Seq(S), NEW w \in S
    PROVE  a \o Append(b, w) = Append(a \o b, w)
<1> DEFINE l == a \o Append(b, w)
           r == Append(a \o b, w)
<1>1. /\ Append(b, w) \in Seq(S) /\ Len(Append(b, w)) = Len(b) + 1
      /\ \A i \in 1 .. Len(b) : Append(b, w)[i] = b[i]
      /\ Append(b, w)[Len(b) + 1] = w
      /\ Len(a) \in Nat /\ Len(b) \in Nat
  BY AppendProperties, LenProperties
<1>2. /\ l \in Seq(S) /\ Len(l) = Len(a) + Len(b) + 1
      /\ \A i \in 1 .. Len(a) + Len(b) + 1 :
             l[i] = IF i <= Len(a) THEN a[i] ELSE Append(b, w)[i - Len(a)]
  BY <1>1, ConcatProperties
<1>3. /\ a \o b \in Seq(S) /\ Len(a \o b) = Len(a) + Len(b)
      /\ \A i \in 1 .. Len(a) + Len(b) :
             (a \o b)[i] = IF i <= Len(a) THEN a[i] ELSE b[i - Len(a)]
  BY ConcatProperties
<1>4. /\ r \in Seq(S) /\ Len(r) = Len(a) + Len(b) + 1
      /\ \A i \in 1 .. Len(a) + Len(b) : r[i] = (a \o b)[i]
      /\ r[Len(a) + Len(b) + 1] = w
  BY <1>3, AppendProperties
<1> HIDE DEF l, r
<1>5. \A i \in 1 .. Len(l) : l[i] = r[i]
  <2> SUFFICES ASSUME NEW i \in 1 .. Len(l)
               PROVE  l[i] = r[i]
    OBVIOUS
  <2> i \in 1 .. Len(a) + Len(b) + 1
    BY <1>2
  <2>1. CASE i <= Len(a)
    <3>1. i \in 1 .. Len(a) + Len(b)
      BY <2>1, <1>1
    <3>2. l[i] = a[i]
      BY <2>1, <1>2
    <3>3. QED
      BY <2>1, <3>1, <3>2, <1>3, <1>4
  <2>2. CASE i > Len(a) /\ i <= Len(a) + Len(b)
    <3>1. i - Len(a) \in 1 .. Len(b) /\ i \in 1 .. Len(a) + Len(b)
      BY <2>2, <1>1
    <3>2. QED
      BY <2>2, <3>1, <1>1, <1>2, <1>3, <1>4
  <2>3. CASE i = Len(a) + Len(b) + 1
    BY <2>3, <1>1, <1>2, <1>4
  <2>4. i <= Len(a) \/ (i > Len(a) /\ i <= Len(a) + Len(b))
        \/ i = Len(a) + Len(b) + 1
    BY <1>1
  <2>5. QED
    BY <2>1, <2>2, <2>3, <2>4
<1>6. l = r
  BY <1>2, <1>4, <1>5, SeqEqual
<1>7. QED
  BY <1>6 DEF l, r

LEMMA ConcatMove ==
    ASSUME NEW S, NEW a \in Seq(S), NEW b \in Seq(S), b # <<>>
    PROVE  Append(a, Head(b)) \o Tail(b) = a \o b
<1> DEFINE c == Append(a, Head(b))
           d == Tail(b)
<1>1. /\ Head(b) = b[1] /\ b[1] \in S /\ d \in Seq(S)
      /\ Len(d) = Len(b) - 1 /\ Len(b) \in Nat \ {0} /\ Len(a) \in Nat
      /\ \A i \in 1 .. Len(b) - 1 : d[i] = b[i + 1]
  BY RestOfTail, LenProperties
<1>2. /\ c \in Seq(S) /\ Len(c) = Len(a) + 1
      /\ \A i \in 1 .. Len(a) : c[i] = a[i]
      /\ c[Len(a) + 1] = b[1]
  BY <1>1, AppendProperties
<1> HIDE DEF c, d
<1>3. /\ c \o d \in Seq(S) /\ Len(c \o d) = Len(a) + Len(b)
      /\ \A i \in 1 .. Len(a) + Len(b) :
             (c \o d)[i] = IF i <= Len(a) + 1 THEN c[i] ELSE d[i - (Len(a) + 1)]
  <2>1. /\ c \o d \in Seq(S) /\ Len(c \o d) = Len(c) + Len(d)
        /\ \A i \in 1 .. Len(c) + Len(d) :
               (c \o d)[i] = IF i <= Len(c) THEN c[i] ELSE d[i - Len(c)]
    BY <1>1, <1>2, ConcatProperties
  <2>2. Len(c) + Len(d) = Len(a) + Len(b)
    BY <1>1, <1>2
  <2>3. QED
    BY <1>2, <2>1, <2>2
<1>4. /\ a \o b \in Seq(S) /\ Len(a \o b) = Len(a) + Len(b)
      /\ \A i \in 1 .. Len(a) + Len(b) :
             (a \o b)[i] = IF i <= Len(a) THEN a[i] ELSE b[i - Len(a)]
  BY ConcatProperties
<1>5. \A i \in 1 .. Len(a) + Len(b) : (c \o d)[i] = (a \o b)[i]
  <2> SUFFICES ASSUME NEW i \in 1 .. Len(a) + Len(b)
               PROVE  (c \o d)[i] = (a \o b)[i]
    OBVIOUS
  <2>1. CASE i <= Len(a)
    BY <2>1, <1>1, <1>2, <1>3, <1>4
  <2>2. CASE i = Len(a) + 1
    BY <2>2, <1>1, <1>2, <1>3, <1>4
  <2>3. CASE i > Len(a) + 1
    <3>1. /\ i - (Len(a) + 1) \in 1 .. Len(b) - 1
          /\ i - (Len(a) + 1) + 1 = i - Len(a)
      BY <2>3, <1>1
    <3>2. (c \o d)[i] = d[i - (Len(a) + 1)]
      BY <2>3, <1>1, <1>3
    <3>3. (a \o b)[i] = b[i - Len(a)]
      BY <2>3, <1>1, <1>4
    <3>4. d[i - (Len(a) + 1)] = b[i - (Len(a) + 1) + 1]
      BY <3>1, <1>1
    <3>5. QED
      BY <3>1, <3>2, <3>3, <3>4
  <2>4. i <= Len(a) \/ i = Len(a) + 1 \/ i > Len(a) + 1
    BY <1>1
  <2>5. QED
    BY <2>1, <2>2, <2>3, <2>4
<1>6. c \o d = a \o b
  BY <1>3, <1>4, <1>5, SeqEqual
<1>7. QED
  BY <1>6 DEF c, d

\* The run has returned, as CommandStream sees it.
RunOver == runner \in Over

LEMMA InitImplements == Init => Exec!Init
<1> SUFFICES ASSUME Init
             PROVE  Exec!Init
    OBVIOUS
<1>1. Heard(stream) = <<>>
  <2>1. stream = <<>> /\ Len(stream) = 0
    BY DEF Init
  <2>2. OutsTo(stream, Len(stream)) = {}
    BY <2>1 DEF OutsTo
  <2>3. Cardinality(OutsTo(stream, Len(stream))) = 0
    BY <2>2, FS_EmptySet
  <2>4. QED
    BY <2>3 DEF Heard
<1>2. outCh = <<>> /\ <<>> \o <<>> = <<>> /\ Len(<<>>) = 0
  BY DEF Init
<1>3. ~Sent("error") /\ ~Sent("done") /\ runner \notin Over
  BY DEF Init, Sent, Over
<1>4. QED
  BY <1>1, <1>2, <1>3 DEF Exec!Init

\* The steps that send nothing and put nothing on outCh are a return or are not
\* seen at all.
LEMMA SilentImplements ==
    ASSUME UNCHANGED <<stream, outCh>>, RunOver => RunOver'
    PROVE  Exec!Return \/ UNCHANGED Exec!vars
<1>1. /\ Heard(stream)' = Heard(stream) /\ outCh' = outCh
      /\ Sent("error")' = Sent("error") /\ Sent("done")' = Sent("done")
  BY DEF Sent
<1>2. CASE RunOver' = RunOver
  BY <1>1, <1>2 DEF Exec!vars, RunOver
<1>3. CASE ~RunOver /\ RunOver'
  BY <1>1, <1>3 DEF Exec!Return, RunOver
<1>4. QED
  BY <1>2, <1>3 DEF RunOver

\* A chunk put on outCh is said: the copiers run before the end of the run.
LEMMA CopyImplements ==
    ASSUME IInv, NEW s \in Source, Copy(s), outCh' # outCh
    PROVE  Exec!Say
<1> DEFINE w == Out(s, copied[s] + 1)
<1>1. /\ outCh' = Append(outCh, w) /\ stream' = stream /\ runner' = runner
      /\ copied[s] + 1 \in 1 .. MaxChunks /\ s \in copying
  BY ExecStreamAssumption DEF Copy, Put, IInv, TypeOK
<1>2. runner \notin Over
  BY <1>1 DEF IInv, RunnerInv, Over
<1>3. w \in OutEvent
  BY <1>1, EventFacts
<1>4. stream \in Seq(Event) /\ outCh \in Seq(OutEvent)
  BY DEF IInv, TypeOK, Event
<1> HIDE DEF w
<1>5. PICK T : Heard(stream) \in Seq(T)
  BY <1>4, HeardIsSeq
<1>6. /\ Heard(stream) \in Seq(T \cup OutEvent)
      /\ outCh \in Seq(T \cup OutEvent)
  BY <1>4, <1>5, SeqMonotonic
<1>7. Heard(stream) \o outCh' = Append(Heard(stream) \o outCh, w)
  BY <1>1, <1>3, <1>6, ConcatAppend
<1>8. /\ Sent("error")' = Sent("error") /\ Sent("done")' = Sent("done")
      /\ Heard(stream') = Heard(stream)
  BY <1>1 DEF Sent
<1>9. QED
  BY <1>1, <1>2, <1>3, <1>7, <1>8 DEF Exec!Say

\* A chunk taken from outCh and sent is heard.
LEMMA SelectOutImplements == IInv /\ SelectOut => Exec!Hear
<1> SUFFICES ASSUME IInv, SelectOut
             PROVE  Exec!Hear
    OBVIOUS
<1>1. /\ stream \in Seq(Event) /\ outCh \in Seq(OutEvent) /\ outCh # <<>>
      /\ stream' = Append(stream, Head(outCh)) /\ outCh' = Tail(outCh)
      /\ runner' = runner /\ handler = "select"
  BY DEF IInv, TypeOK, Event, SelectOut, Send
<1>2. Head(outCh) \in OutEvent /\ Len(outCh) \in Nat \ {0}
  BY <1>1, RestOfTail
<1>3. Head(outCh) \in Event /\ Head(outCh).event = "out"
  BY <1>2, OutEventFacts
<1>4. Heard(stream') = Append(Heard(stream), Head(outCh))
  BY <1>1, <1>3, HeardAppend
<1>5. PICK T : Heard(stream) \in Seq(T)
  BY <1>1, HeardIsSeq
<1>6. /\ Heard(stream) \in Seq(T \cup OutEvent)
      /\ outCh \in Seq(T \cup OutEvent)
  BY <1>1, <1>5, SeqMonotonic
<1>7. Heard(stream') \o outCh' = Heard(stream) \o outCh
  BY <1>1, <1>4, <1>6, ConcatMove
<1>8. /\ Len(Heard(stream')) = Len(Heard(stream)) + 1
      /\ Len(Heard(stream) \o outCh) = Len(Heard(stream)) + Len(outCh)
      /\ Len(Heard(stream)) \in Nat
  BY <1>2, <1>4, <1>6, AppendProperties, ConcatProperties, LenProperties
<1>9. Sent("error")' = Sent("error") /\ Sent("done")' = Sent("done")
  <2>1. Send(Head(outCh))
    BY <1>1 DEF Send
  <2>2. \A x : Sent(x)' <=> (Sent(x) \/ x = "out")
    BY <1>1, <1>3, <2>1, SendSent
  <2>3. QED
    BY <2>2 DEF Sent
<1>10. ~Sent("done")
  BY <1>1 DEF IInv, HandlerInv
<1>11. Len(Heard(stream)) < Len(Heard(stream) \o outCh)
  BY <1>2, <1>8
<1>12. QED
  BY <1>1, <1>7, <1>8, <1>9, <1>10, <1>11 DEF Exec!Hear

\* An error taken from errCh and sent is told, once, when the run is over.
LEMMA SelectErrImplements == IInv /\ SelectErr => Exec!Tell
<1> SUFFICES ASSUME IInv, SelectErr
             PROVE  Exec!Tell
    OBVIOUS
<1>1. /\ stream \in Seq(Event) /\ errCh \in Seq(ErrorEvent) /\ errCh # <<>>
      /\ Send(Head(errCh)) /\ UNCHANGED <<runner, outCh>>
      /\ handler = "select"
  BY DEF IInv, TypeOK, Event, SelectErr, copyVars
<1>2. Head(errCh) \in ErrorEvent
  BY <1>1, RestOfTail
<1>3. Head(errCh) \in Event /\ Head(errCh).event = "error"
  BY <1>2, ErrorEventFacts
<1>4. Heard(stream') = Heard(stream)
  BY <1>1, <1>3, HeardAppend DEF Send
<1>5. Sent("error")' = TRUE /\ Sent("done")' = Sent("done")
  BY <1>1, <1>3, SendSent DEF Sent
<1>6. ~Sent("done") /\ ~Sent("error") /\ runner \in Over
  BY <1>1 DEF IInv, HandlerInv, RunnerInv
<1>7. QED
  BY <1>1, <1>4, <1>5, <1>6 DEF Exec!Tell

\* The mark closes the stream, once, when the run is over.
LEMMA LeaveImplements ==
    IInv /\ Leave /\ client # "gone" => Exec!Close
<1> SUFFICES ASSUME IInv, Leave, client # "gone"
             PROVE  Exec!Close
    OBVIOUS
<1>1. /\ stream \in Seq(Event) /\ Done \in Event /\ Done.event = "done"
      /\ Send(Done) /\ UNCHANGED <<runner, outCh>>
      /\ handler = "leave"
  BY EventFacts DEF IInv, TypeOK, Event, Leave, copyVars
<1>2. Heard(stream') = Heard(stream)
  BY <1>1, HeardAppend DEF Send
<1>3. Sent("done")' = TRUE /\ Sent("error")' = Sent("error")
  BY <1>1, SendSent DEF Sent
<1>4. ~Sent("done") /\ runner \in Over
  BY <1>1 DEF IInv, HandlerInv, Signalled, Over
<1>5. QED
  BY <1>1, <1>2, <1>3, <1>4 DEF Exec!Close

LEMMA NextImplements == IInv /\ [Next]_vars => [Exec!Next]_(Exec!vars)
<1> SUFFICES ASSUME IInv, [Next]_vars
             PROVE  Exec!Next \/ UNCHANGED Exec!vars
    OBVIOUS
<1> USE DEF Exec!Next
<1>1. CASE Runner
  <2>1. UNCHANGED <<stream, outCh>>
    BY <1>1 DEF Runner, ReadKey, Dial, NewSession, RegisterAfterFunc,
            StartCommand, RunReturns, SignalDone, CloseChannels, copyVars
  <2>2. RunOver => RunOver'
    BY <1>1 DEF Runner, ReadKey, Dial, NewSession, RegisterAfterFunc,
            StartCommand, RunReturns, SignalDone, CloseChannels, RunOver,
            Over
  <2>3. QED
    BY <2>1, <2>2, SilentImplements
<1>2. ASSUME NEW s \in Source, Copy(s)
      PROVE  Exec!Next \/ UNCHANGED Exec!vars
  <2>1. UNCHANGED <<stream, runner>>
    BY <1>2 DEF Copy
  <2>2. QED
    BY <1>2, <2>1, CopyImplements, SilentImplements DEF RunOver
<1>3. CASE Decode
  <2>1. UNCHANGED <<stream, outCh>> /\ ~RunOver
    BY <1>3 DEF Decode, copyVars, RunOver, Over, IInv, HandlerInv
  <2>2. QED
    BY <2>1, SilentImplements
<1>4. CASE Leave /\ client = "gone"
  BY <1>4, SilentImplements DEF Leave, copyVars, RunOver
<1>5. CASE Killer \/ SelectDone \/ SelectCtx \/ Environment \/ UNCHANGED vars
  <2>1. UNCHANGED <<stream, outCh, runner>>
    BY <1>5 DEF Killer, SelectDone, SelectCtx, Environment, vars, copyVars
  <2>2. QED
    BY <2>1, SilentImplements DEF RunOver
<1>6. QED
  BY <1>1, <1>2, <1>3, <1>4, <1>5, SelectOutImplements, SelectErrImplements,
     LeaveImplements DEF Next, Handler

\* POST /exec keeps what CommandStream promises: the output is heard in the
\* order it was said, each chunk once; a failure is told at most once, after
\* the end of the run; nothing follows the closing mark (exec.go:83-163).
THEOREM ExecKeepsStreamPromise == Spec => KeepsStreamPromise
<1>1. QED
  BY InitImplements, NextImplements, Invariance, PTL
     DEF Spec, KeepsStreamPromise, Exec!Spec
=============================================================================
