------------------------- MODULE TerminationProofs -------------------------
(***************************************************************************)
(* Proofs about Termination, for any nodes, any number of starts of them   *)
(* and any set-ups of these starts.                                        *)
(***************************************************************************)
EXTENDS Termination, SequenceTheorems, TLAPS

ProcState == {"none", "alive", "ok", "err"}

(* How ServePty goes on.                                                     *)
Onward ==
  {<<"dialed", "launch">>, <<"dialed", "gone">>, <<"launch", "failed">>, <<"launched", "hello">>,
   <<"hello", "wait">>, <<"wait", "exited">>, <<"exited", "exited2">>, <<"exited2", "drain">>,
   <<"failed", "drain">>, <<"drain", "gone">>}

ServerGoesOn(s) ==
  \E pc : /\ <<srv[s], pc>> \in Onward /\ srv' = [srv EXCEPT ![s] = pc]
          /\ (pc = "exited" => proc[s] # "alive") /\ UNCHANGED proc

ProcessStarts(s) ==
  srv[s] = "launch" /\ srv' = [srv EXCEPT ![s] = "launched"] /\ proc' = [proc EXCEPT ![s] = "alive"]

LEMMA ServerMove ==
  ASSUME NEW s \in Session, ServerStep(s)
  PROVE  UNCHANGED setup /\ (UNCHANGED <<srv, proc>> \/ ServerGoesOn(s) \/ ProcessStarts(s))
<1>1. CASE ReceiveArgs(s)
  <2>1. UNCHANGED <<setup, proc>> /\ srv[s] = "dialed" /\ (Goto(s, "launch") \/ Goto(s, "gone"))
    BY <1>1 DEF ReceiveArgs, procVars
  <2> QED
    BY <2>1 DEF Goto, ServerGoesOn, Onward
<1>2. CASE Launch(s)
  <2>1. CASE Goto(s, "launched") /\ proc' = [proc EXCEPT ![s] = "alive"]
    BY <1>2, <2>1 DEF Launch, Goto, ProcessStarts
  <2>2. CASE Goto(s, "failed") /\ UNCHANGED proc
    BY <1>2, <2>2 DEF Launch, Goto, ServerGoesOn, Onward
  <2> QED
    BY <1>2, <2>1, <2>2 DEF Launch
<1>3. CASE Register(s)
  BY <1>3 DEF Register, Goto, procVars, ServerGoesOn, Onward
<1>4. CASE SendStart(s)
  <2>1. UNCHANGED <<setup, proc>> /\ srv[s] \in {"hello", "failed"}
        /\ Goto(s, IF srv[s] = "hello" THEN "wait" ELSE "drain")
    BY <1>4 DEF SendStart, procVars
  <2> QED
    BY <2>1 DEF Goto, ServerGoesOn, Onward
<1>5. CASE SendExit(s)
  <2>1. UNCHANGED <<setup, proc>> /\ srv[s] \in {"exited", "exited2"}
        /\ Goto(s, IF srv[s] = "exited" THEN "exited2" ELSE "drain")
    BY <1>5 DEF SendExit, procVars
  <2> QED
    BY <2>1 DEF Goto, ServerGoesOn, Onward
<1>6. CASE Wait(s)
  BY <1>6 DEF Wait, Goto, procVars, ServerGoesOn, Onward
<1>7. CASE Return(s)
  <2>1. UNCHANGED <<setup, proc>> /\ srv[s] = "drain" /\ Goto(s, "gone")
    BY <1>7 DEF Return, procVars
  <2> QED
    BY <2>1 DEF Goto, ServerGoesOn, Onward
<1>8. CASE Input(s) \/ Command(s) \/ Answer(s) \/ CommandError(s) \/ TerminateProcess(s)
  BY <1>8 DEF Input, Command, Answer, CommandError, TerminateProcess, procVars
<1> QED
  BY <1>1, <1>2, <1>3, <1>4, <1>5, <1>6, <1>7, <1>8 DEF ServerStep

-----------------------------------------------------------------------------
(* The local processes.                                                     *)

(* While runtree is there, a server waits for a process that lives.  When    *)
(* stop has seen the servers return, there is none, and none comes.          *)
LocalInv ==
  /\ srv = [s \in Session |-> srv[s]] /\ proc \in [Session -> ProcState]
  /\ \A s \in Session : srv[s] \in {"none", "dialed", "launch"} => proc[s] = "none"
  /\ \A s \in Local : Running /\ proc[s] = "alive" => srv[s] \in {"launched", "hello", "wait"}
  /\ LocalQuiet

LEMMA LocalInitInv == Init => LocalInv
BY DEF Init, SessionInit, All, LocalInv, ProcState, LocalQuiet, Local

localVars == <<setup, srv, proc, ex, lpc>>

LEMMA LocalStays == LocalInv /\ UNCHANGED localVars => LocalInv'
BY DEF LocalInv, localVars, LocalQuiet, Local, Serving, Running

LEMMA LocalServerInv ==
  ASSUME LocalInv, NEW s \in Session, ServerStep(s), UNCHANGED exitVars PROVE LocalInv'
<1>1. UNCHANGED <<setup, ex, lpc>> /\ (UNCHANGED <<srv, proc>> \/ ServerGoesOn(s) \/ ProcessStarts(s))
  BY ServerMove DEF exitVars
<1>2. CASE UNCHANGED <<srv, proc>>
  BY <1>1, <1>2, LocalStays DEF localVars
<1>3. CASE ServerGoesOn(s)
  <2>1. PICK pc : /\ <<srv[s], pc>> \in Onward /\ srv' = [srv EXCEPT ![s] = pc]
                  /\ (pc = "exited" => proc[s] # "alive") /\ UNCHANGED proc
    BY <1>3 DEF ServerGoesOn
  <2>2. /\ srv' = [t \in Session |-> srv'[t]] /\ srv'[s] = pc /\ srv[s] \notin {"none", "gone"}
        /\ pc # "none" /\ pc # "dialed" /\ (pc = "launch" => srv[s] = "dialed")
        /\ srv[s] \in {"launched", "hello", "wait"} => pc \in {"hello", "wait", "exited"}
        /\ \A t \in Session : t # s => srv'[t] = srv[t]
    BY <2>1 DEF LocalInv, Onward
  <2> QED
    BY <1>1, <2>1, <2>2 DEF LocalInv, LocalQuiet, Local, Serving, Running
<1>4. CASE ProcessStarts(s)
  <2>1. /\ srv' = [t \in Session |-> srv'[t]] /\ srv'[s] = "launched" /\ srv[s] = "launch"
        /\ proc' \in [Session -> ProcState]
        /\ \A t \in Session : t # s => srv'[t] = srv[t] /\ proc'[t] = proc[t]
    BY <1>4 DEF LocalInv, ProcessStarts, ProcState
  <2> QED
    BY <1>1, <2>1 DEF LocalInv, LocalQuiet, Local, Serving, Running
<1> QED
  BY <1>1, <1>2, <1>3, <1>4

LEMMA LocalExitInv == ASSUME LocalInv, NEW s \in Session, Exit(s), UNCHANGED exitVars PROVE LocalInv'
<1>1. /\ UNCHANGED <<setup, srv, ex, lpc>> /\ proc[s] = "alive" /\ proc'[s] \in {"ok", "err"}
      /\ proc' \in [Session -> ProcState] /\ \A t \in Session : t # s => proc'[t] = proc[t]
  BY DEF LocalInv, Exit, srvVars, exitVars, ProcState
<1> QED
  BY <1>1 DEF LocalInv, LocalQuiet, Local, Serving, Running

(* The local runner takes no connection any more when it is stopped.         *)
LEMMA LocalDialInv == ASSUME LocalInv, NEW s \in Session, Dials(s) PROVE LocalInv'
<1>1. UNCHANGED <<setup, proc, ex, lpc>> /\ srv[s] = "none"
  BY DEF Dials, Dial, procVars, exitVars
<1>2. CASE UNCHANGED srv
  BY <1>1, <1>2, LocalStays DEF localVars
<1>3. CASE (s \in Local => ~Stopped) /\ srv' = [srv EXCEPT ![s] = "dialed"]
  <2>1. /\ srv' = [t \in Session |-> srv'[t]] /\ srv'[s] = "dialed"
        /\ \A t \in Session : t # s => srv'[t] = srv[t]
    BY <1>3 DEF LocalInv
  <2>2. lpc = "all" => s \notin Local
    BY <1>3 DEF Stopped
  <2> QED
    BY <1>1, <2>1, <2>2 DEF LocalInv, LocalQuiet, Local, Serving, Running
<1> QED
  BY <1>2, <1>3 DEF Dials, Dial, Goto

LEMMA LocalGoneInv == ASSUME LocalInv, NEW e \in {"exited", "crashed"}, Gone(e) PROVE LocalInv'
<1>1. /\ UNCHANGED <<setup, proc, lpc>> /\ ex' = e
      /\ srv' = [s \in Session |-> IF s \in Local /\ srv[s] # "none" THEN "gone" ELSE srv[s]]
  BY DEF Gone, procVars
<1> QED
  BY <1>1 DEF LocalInv, LocalQuiet, Local, Serving, Running

LEMMA LocalStopInv ==
  ASSUME LocalInv, StopRunning \/ StopLocal \/ AllReturned \/ StopLocalTimeout PROVE LocalInv'
<1>1. UNCHANGED <<setup, srv, proc>> /\ Running /\ ex' = "stopping"
  BY DEF StopRunning, StopLocal, AllReturned, StopLocalTimeout, sessionVars, procVars, srvVars, Running
<1>2. lpc' = "all" => \A s \in Local : ~Serving(s)
  BY DEF StopRunning, StopLocal, AllReturned, StopLocalTimeout
<1> QED
  BY <1>1, <1>2 DEF LocalInv, LocalQuiet, Local, Serving, Running

(* What happens to a session besides the exit of its process.                *)
Happens(s) == RestExits(s) \/ ConnectionLost(s) \/ OutputEnds(s) \/ Attach(s) \/ AcceptFails(s)

(* The steps that touch none of this.                                        *)
LEMMA LocalKept ==
  /\ \A n \in Nodes :
       Start(n) \/ Connected(n) \/ StateSeen(n) \/ TerminalFailed(n) \/ CheckTimeout(n) => UNCHANGED localVars
  /\ \A s \in Session :
       /\ (ClientStep(s) \/ Happens(s)) /\ UNCHANGED exitVars => UNCHANGED localVars
       /\ TimeoutStep(s) \/ TerminateLocal(s) => UNCHANGED localVars
  /\ RemoteStarted \/ ListRemote \/ SignalRemote \/ RemoteGraceOver => UNCHANGED localVars
<1> USE DEF sessionVars, procVars, srvVars, exitVars, localVars
<1>1. ASSUME NEW n \in Nodes, Start(n) \/ Connected(n) \/ StateSeen(n) \/ TerminalFailed(n) \/ CheckTimeout(n)
      PROVE UNCHANGED localVars
  BY <1>1 DEF Start, Connected, StateSeen, TerminalFailed, CheckTimeout, Close
<1>2. ASSUME NEW s \in Session, ClientStep(s), UNCHANGED exitVars PROVE UNCHANGED localVars
  BY <1>2 DEF ClientStep, StartPty, ReceiveError, ReceiveState, Bye, ReceiveSignalError, CopyEnds
<1>3. ASSUME NEW s \in Session, Happens(s), UNCHANGED exitVars PROVE UNCHANGED localVars
  BY <1>3 DEF Happens, RestExits, ConnectionLost, OutputEnds, Attach, AcceptFails
<1>4. ASSUME NEW s \in Session, TimeoutStep(s) \/ TerminateLocal(s) PROVE UNCHANGED localVars
  BY <1>4 DEF TimeoutStep, TypeCtrlC, GraceOver, SendTimeoutSignal, TerminateLocal, Terminate
<1>5. RemoteStarted \/ ListRemote \/ RemoteGraceOver => UNCHANGED localVars
  BY DEF RemoteStarted, ListRemote, RemoteGraceOver
<1>6. SignalRemote => UNCHANGED localVars
  BY DEF SignalRemote
<1> HIDE DEF sessionVars, procVars, srvVars, exitVars, localVars
<1> QED
  BY <1>1, <1>2, <1>3, <1>4, <1>5, <1>6

LEMMA LocalNextInv == LocalInv /\ [Next]_vars => LocalInv'
<1> SUFFICES ASSUME LocalInv, [Next]_vars PROVE LocalInv'
  OBVIOUS
<1>1. CASE UNCHANGED vars
  BY <1>1, LocalStays DEF vars, sessionVars, procVars, srvVars, exitVars, localVars
<1>2. ASSUME NEW n \in Nodes, Start(n) \/ Connected(n) \/ StateSeen(n) \/ TerminalFailed(n) \/ CheckTimeout(n)
      PROVE LocalInv'
  BY <1>2, LocalKept, LocalStays
<1>3. ASSUME NEW s \in Session, SessionStep(s) PROVE LocalInv'
  BY <1>3, LocalServerInv, LocalKept, LocalStays DEF SessionStep
<1>4. ASSUME NEW s \in Session, Environment(s) PROVE LocalInv'
  BY <1>4, LocalExitInv, LocalKept, LocalStays DEF Environment, Happens
<1>5. ASSUME NEW s \in Session, Dials(s) \/ TimeoutStep(s) \/ TerminateLocal(s) PROVE LocalInv'
  BY <1>5, LocalDialInv, LocalKept, LocalStays
<1>6. CASE StopRunning \/ StopLocal \/ AllReturned \/ StopLocalTimeout
  BY <1>6, LocalStopInv
<1>7. CASE RemoteStarted \/ ListRemote \/ SignalRemote \/ RemoteGraceOver
  BY <1>7, LocalKept, LocalStays
<1>8. CASE ExitProgram \/ Crash
  BY <1>8, LocalGoneInv DEF ExitProgram, Crash
<1> QED
  BY <1>1, <1>2, <1>3, <1>4, <1>5, <1>6, <1>7, <1>8 DEF Next, ExitStep

(* "No process can be started afterwards" (local.go:93), whenever the        *)
(* processes start, and however long they take to stop: after stop returned  *)
(* in time there is no local process, and there will be none.                *)
THEOREM NoneIsStartedAfterwards == Spec => []LocalQuiet
<1>1. LocalInv => LocalQuiet
  BY DEF LocalInv
<1> QED
  BY <1>1, LocalInitInv, LocalNextInv, PTL DEF Spec

-----------------------------------------------------------------------------
(* The signals.                                                             *)

ServerMessage == {"args", "disconnect"} \cup Signal

Carries(q) == \E i \in 1..Len(q) : q[i] \in Signal

LEMMA CarriesLess ==
  ASSUME NEW q \in Seq(ServerMessage), q # <<>>
  PROVE  /\ Tail(q) \in Seq(ServerMessage)
         /\ Carries(Tail(q)) => Carries(q)
         /\ Head(q) \in Signal => Carries(q)
<1>1. /\ Tail(q) \in Seq(ServerMessage) /\ Len(q) \in Nat /\ Len(q) > 0 /\ Len(Tail(q)) = Len(q) - 1
      /\ Head(q) = q[1] /\ \A i \in 1..Len(q) - 1 : Tail(q)[i] = q[i + 1]
  BY HeadTailProperties, EmptySeq, LenProperties
<1>2. \A i \in 1..Len(Tail(q)) : i + 1 \in 1..Len(q) /\ Tail(q)[i] = q[i + 1]
  BY <1>1
<1> QED
  BY <1>1, <1>2 DEF Carries

LEMMA CarriesMore ==
  ASSUME NEW q \in Seq(ServerMessage), NEW m \in ServerMessage
  PROVE  /\ Append(q, m) \in Seq(ServerMessage)
         /\ Carries(Append(q, m)) => Carries(q) \/ m \in Signal
<1>1. /\ Append(q, m) \in Seq(ServerMessage) /\ Len(q) \in Nat /\ Len(Append(q, m)) = Len(q) + 1
      /\ Append(q, m)[Len(q) + 1] = m /\ \A i \in 1..Len(q) : Append(q, m)[i] = q[i]
  BY AppendProperties, LenProperties
<1> QED
  BY <1>1 DEF Carries

LEMMA CarriesNone ==
  /\ <<>> \in Seq(ServerMessage) /\ ~Carries(<<>>)
  /\ <<"args">> \in Seq(ServerMessage) /\ ~Carries(<<"args">>)
BY DEF ServerMessage, Carries, Signal

SignalTypeOK ==
  /\ te = [s \in Session |-> te[s]] /\ typed = [s \in Session |-> typed[s]]
  /\ got = [s \in Session |-> got[s]] /\ esc \in [Session -> {"no", "done"} \cup Signal]
  /\ toServer \in [Session -> Seq(ServerMessage)] /\ rsig \in Signal

(* A signal, or Ctrl+C, on its way is as much meant as one that arrived.     *)
SignalInv ==
  /\ SignalTypeOK
  /\ \A n \in rnodes : Remote(n)
  /\ \A s \in Session :
       /\ typed[s] => te[s] # "no"
       /\ Carries(toServer[s]) => te[s] # "no" \/ (s \notin Local /\ rpc # "idle")
  /\ SignalsMeant

LEMMA SignalInitInv == Init => SignalInv
BY CarriesNone DEF Init, SessionInit, All, SignalInv, SignalTypeOK, SignalsMeant, Signal

(* What every step does about signals: nothing that started to stop a        *)
(* process is forgotten, a signal is sent for a reason, and arrives after it *)
(* was sent.                                                                 *)
KeepsReasons ==
  /\ UNCHANGED setup /\ SignalTypeOK'
  /\ rpc # "idle" => rpc' # "idle"
  /\ \A n \in rnodes' : Remote(n)
  /\ \A s \in Session :
       /\ te[s] # "no" => te'[s] # "no"
       /\ esc[s] # "no" => esc'[s] # "no"
       /\ typed'[s] => typed[s] \/ te'[s] # "no"
       /\ Carries(toServer'[s]) => Carries(toServer[s]) \/ te'[s] # "no" \/ (s \notin Local /\ rpc' # "idle")
       /\ got'[s] # "no" => got[s] # "no" \/ typed[s] \/ Carries(toServer[s]) \/ esc'[s] # "no"

LEMMA KeepsReasonsInv == SignalInv /\ KeepsReasons => SignalInv'
BY DEF SignalInv, KeepsReasons, SignalsMeant, Remote, Local

signalVars == <<setup, te, got, esc, typed, toServer, rpc, rsig, rnodes>>

LEMMA SignalStays == SignalInv /\ UNCHANGED signalVars => KeepsReasons
BY DEF SignalInv, SignalTypeOK, signalVars, KeepsReasons

LEMMA Requeued ==
  ASSUME SignalTypeOK, NEW s \in Session, NEW q \in Seq(ServerMessage),
         Carries(q) => Carries(toServer[s]), toServer' = [toServer EXCEPT ![s] = q]
  PROVE  /\ toServer' \in [Session -> Seq(ServerMessage)]
         /\ \A t \in Session : Carries(toServer'[t]) => Carries(toServer[t])
BY DEF SignalTypeOK

LEMMA SignalServer ==
  ASSUME SignalInv, NEW s \in Session, ServerStep(s), UNCHANGED <<te, rpc, rsig, rnodes>>
  PROVE  KeepsReasons
<1> USE DEF SignalInv, SignalTypeOK, procVars, srvVars, netVars
<1>1. CASE \/ Launch(s) \/ SendStart(s) \/ SendExit(s) \/ Wait(s) \/ Answer(s)
  <2>1. UNCHANGED <<setup, got, esc, typed, toServer>>
    BY <1>1 DEF Launch, SendStart, SendExit, Wait, Answer
  <2> QED
    BY <2>1, SignalStays DEF signalVars
<1>2. CASE ReceiveArgs(s)
  <2>1. /\ UNCHANGED <<setup, got, esc, typed>>
        /\ UNCHANGED toServer \/ (toServer[s] # <<>> /\ toServer' = [toServer EXCEPT ![s] = Tail(@)])
    BY <1>2 DEF ReceiveArgs
  <2>2. /\ toServer' \in [Session -> Seq(ServerMessage)]
        /\ \A t \in Session : Carries(toServer'[t]) => Carries(toServer[t])
    BY <2>1, CarriesLess, Requeued
  <2> QED
    BY <2>1, <2>2 DEF KeepsReasons
<1>3. CASE Register(s) \/ CommandError(s)
  <2>1. UNCHANGED <<setup, got, typed, toServer>> /\ (UNCHANGED esc \/ esc' = [esc EXCEPT ![s] = "INT"])
    BY <1>3 DEF Register, CommandError, Abandon
  <2> QED
    BY <2>1 DEF KeepsReasons, Signal
<1>4. CASE Return(s)
  <2>1. /\ UNCHANGED <<setup, got>> /\ (UNCHANGED esc \/ esc' = [esc EXCEPT ![s] = "done"])
        /\ toServer' = [toServer EXCEPT ![s] = <<>>] /\ typed' = [typed EXCEPT ![s] = FALSE]
    BY <1>4 DEF Return
  <2>2. /\ toServer' \in [Session -> Seq(ServerMessage)]
        /\ \A t \in Session : Carries(toServer'[t]) => Carries(toServer[t])
    BY <2>1, CarriesNone
  <2> QED
    BY <2>1, <2>2 DEF KeepsReasons, Signal
<1>5. CASE Input(s)
  <2>1. /\ UNCHANGED <<setup, esc, toServer>>
        /\ \/ UNCHANGED got /\ (UNCHANGED typed \/ typed' = [typed EXCEPT ![s] = FALSE])
           \/ typed[s] /\ typed' = [typed EXCEPT ![s] = FALSE] /\ Deliver(s, "INT")
    BY <1>5 DEF Input
  <2> QED
    BY <2>1 DEF KeepsReasons, Deliver
<1>6. CASE Command(s)
  <2>1. /\ UNCHANGED <<setup, esc, typed>> /\ toServer[s] # <<>>
        /\ toServer' = [toServer EXCEPT ![s] = Tail(@)]
        /\ UNCHANGED got \/ (Head(toServer[s]) \in Signal /\ Deliver(s, Head(toServer[s])))
    BY <1>6 DEF Command
  <2>2. /\ toServer' \in [Session -> Seq(ServerMessage)]
        /\ \A t \in Session : Carries(toServer'[t]) => Carries(toServer[t])
        /\ Head(toServer[s]) \in Signal => Carries(toServer[s])
    BY <2>1, CarriesLess
  <2>3. /\ got' = [t \in Session |-> got'[t]]
        /\ \A t \in Session : got'[t] # "no" => got[t] # "no" \/ Carries(toServer[t])
    BY <2>1, <2>2 DEF Deliver
  <2> QED
    BY <2>1, <2>2, <2>3 DEF KeepsReasons
<1>7. CASE TerminateProcess(s)
  <2>1. /\ UNCHANGED <<setup, typed, toServer>> /\ esc[s] \in Signal
        /\ esc' = [esc EXCEPT ![s] = After[@]] \/ esc' = [esc EXCEPT ![s] = "done"]
        /\ UNCHANGED got \/ Deliver(s, esc[s])
    BY <1>7 DEF TerminateProcess
  <2>2. After[esc[s]] \in Signal \cup {"done"} /\ "no" \notin Signal
    BY <2>1 DEF After, Signal
  <2>3. /\ esc' \in [Session -> {"no", "done"} \cup Signal] /\ esc'[s] # "no"
        /\ \A t \in Session : t # s => esc'[t] = esc[t]
    BY <2>1, <2>2
  <2>4. got' = [t \in Session |-> got'[t]] /\ \A t \in Session : t # s => got'[t] = got[t]
    BY <2>1 DEF Deliver
  <2> QED
    BY <2>1, <2>3, <2>4 DEF KeepsReasons
<1> QED
  BY <1>1, <1>2, <1>3, <1>4, <1>5, <1>6, <1>7 DEF ServerStep

LEMMA SignalClient ==
  ASSUME SignalInv, NEW s \in Session, ClientStep(s), UNCHANGED <<te, rpc, rsig, rnodes>>
  PROVE  KeepsReasons
<1> USE DEF SignalInv, SignalTypeOK, procVars, srvVars, netVars
<1>1. CASE ReceiveError(s) \/ Bye(s) \/ ReceiveSignalError(s) \/ CopyEnds(s)
  <2>1. UNCHANGED <<setup, got, esc, typed, toServer>>
    BY <1>1 DEF ReceiveError, Bye, ReceiveSignalError, CopyEnds
  <2> QED
    BY <2>1, SignalStays DEF signalVars
<1>2. CASE StartPty(s)
  <2>1. /\ UNCHANGED <<setup, got, esc, typed>>
        /\ UNCHANGED toServer \/ toServer' = [toServer EXCEPT ![s] = <<"args">>]
    BY <1>2 DEF StartPty
  <2>2. /\ toServer' \in [Session -> Seq(ServerMessage)]
        /\ \A t \in Session : Carries(toServer'[t]) => Carries(toServer[t])
    BY <2>1, CarriesNone
  <2> QED
    BY <2>1, <2>2 DEF KeepsReasons
<1>3. CASE ReceiveState(s)
  <2>1. /\ UNCHANGED <<setup, got, esc, typed>>
        /\ UNCHANGED toServer \/ toServer' = [toServer EXCEPT ![s] = Append(@, "disconnect")]
    BY <1>3 DEF ReceiveState
  <2>2. "disconnect" \in ServerMessage /\ "disconnect" \notin Signal
    BY DEF ServerMessage, Signal
  <2>3. /\ toServer' \in [Session -> Seq(ServerMessage)]
        /\ \A t \in Session : Carries(toServer'[t]) => Carries(toServer[t])
    BY <2>1, <2>2, CarriesMore, Requeued
  <2> QED
    BY <2>1, <2>3 DEF KeepsReasons
<1> QED
  BY <1>1, <1>2, <1>3 DEF ClientStep

LEMMA SignalEnvironment ==
  ASSUME SignalInv, NEW s \in Session, Environment(s) PROVE KeepsReasons
<1> USE DEF Environment, exitVars, procVars, srvVars, netVars
<1>1. UNCHANGED <<setup, esc, typed, toServer, te, rpc, rsig, rnodes>>
  BY DEF Exit, RestExits, ConnectionLost, OutputEnds, Attach, AcceptFails
<1>2. UNCHANGED got \/ got' = [got EXCEPT ![s] = "no"]
  BY DEF Exit, RestExits, ConnectionLost, OutputEnds, Attach, AcceptFails
<1> QED
  BY <1>1, <1>2 DEF KeepsReasons, SignalInv, SignalTypeOK

(* SendSignals, to sessions that it is meant for.                            *)
LEMMA SignalSent ==
  ASSUME SignalInv, NEW to, NEW sig \in Signal, SendSignals(to, sig)
  PROVE  /\ toServer' \in [Session -> Seq(ServerMessage)]
         /\ \A s \in Session : Carries(toServer'[s]) => Carries(toServer[s]) \/ s \in to
<1>1. sig \in ServerMessage
  BY DEF ServerMessage
<1> QED
  BY <1>1, CarriesMore DEF SendSignals, SignalInv, SignalTypeOK

LEMMA SignalTimeout ==
  ASSUME SignalInv, NEW s \in Session, TimeoutStep(s) PROVE KeepsReasons
<1> USE DEF SignalInv, SignalTypeOK, exitVars, procVars, srvVars
<1>1. CASE TypeCtrlC(s)
  <2>1. /\ UNCHANGED <<setup, got, esc, toServer, rpc, rsig, rnodes>>
        /\ te' = [te EXCEPT ![s] = "TERM"] /\ typed' = [typed EXCEPT ![s] = up[s]]
    BY <1>1 DEF TypeCtrlC
  <2> QED
    BY <2>1 DEF KeepsReasons
<1>2. CASE GraceOver(s)
  <2>1. /\ UNCHANGED <<setup, got, esc, typed, toServer, rpc, rsig, rnodes>>
    BY <1>2 DEF GraceOver, sessionVars, netVars
  <2>2. te'[s] \in {"send TERM", "send KILL", "done"} /\ te' = [te EXCEPT ![s] = te'[s]]
    BY <1>2 DEF GraceOver
  <2> QED
    BY <2>1, <2>2 DEF KeepsReasons
<1>3. CASE SendTimeoutSignal(s)
  <2>1. /\ UNCHANGED <<setup, got, esc, typed, rpc, rsig, rnodes>>
        /\ te' = [te EXCEPT ![s] = te'[s]] /\ te'[s] \in {"KILL", "done"}
    BY <1>3 DEF SendTimeoutSignal, NextGrace
  <2> DEFINE to  == IF client[s[1]] = s[2] /\ Alive(s[1]) THEN {s} ELSE {}
             sig == IF te[s] = "send TERM" THEN "TERM" ELSE "KILL"
  <2>2. sig \in Signal /\ to \subseteq {s} /\ SendSignals(to, sig)
    BY <1>3 DEF SendTimeoutSignal, Signal
  <2> HIDE DEF to, sig
  <2>3. /\ toServer' \in [Session -> Seq(ServerMessage)]
        /\ \A t \in Session : Carries(toServer'[t]) => Carries(toServer[t]) \/ t = s
    BY <2>2, SignalSent
  <2> QED
    BY <2>1, <2>3 DEF KeepsReasons
<1> QED
  BY <1>1, <1>2, <1>3 DEF TimeoutStep

LEMMA SignalNode ==
  ASSUME SignalInv, NEW n \in Nodes,
         Start(n) \/ Connected(n) \/ StateSeen(n) \/ TerminalFailed(n) \/ CheckTimeout(n)
  PROVE  KeepsReasons
<1> USE DEF exitVars, sessionVars, procVars, srvVars, netVars
<1>1. CASE Start(n) \/ Connected(n) \/ StateSeen(n) \/ TerminalFailed(n)
  <2>1. UNCHANGED signalVars
    BY <1>1 DEF Start, Connected, StateSeen, TerminalFailed, Close, signalVars
  <2> QED
    BY <2>1, SignalStays
<1>2. CASE CheckTimeout(n)
  <2>1. /\ UNCHANGED <<setup, got, esc, typed, toServer, rpc, rsig, rnodes>>
        /\ te' = [te EXCEPT ![<<n, client[n]>>] = "ctrlc"]
    BY <1>2 DEF CheckTimeout
  <2> QED
    BY <2>1 DEF KeepsReasons, SignalInv, SignalTypeOK
<1> QED
  BY <1>1, <1>2

LEMMA SignalExit == ASSUME SignalInv, StopRunning \/ ExitStep PROVE KeepsReasons
<1> USE DEF SignalInv, SignalTypeOK, sessionVars, procVars, srvVars, netVars
<1>1. CASE StopRunning \/ StopLocal \/ AllReturned \/ StopLocalTimeout \/ RemoteStarted \/ RemoteGraceOver
  <2>1. /\ UNCHANGED <<setup, te, got, esc, typed, toServer, rnodes>> /\ (rpc # "idle" => rpc' # "idle")
        /\ UNCHANGED rsig \/ (rsig # "KILL" /\ rsig' = After[rsig])
    BY <1>1 DEF StopRunning, StopLocal, AllReturned, StopLocalTimeout, RemoteStarted, RemoteGraceOver
  <2>2. rsig' \in Signal
    BY <2>1 DEF After, Signal
  <2> QED
    BY <2>1, <2>2 DEF KeepsReasons
<1>2. CASE ListRemote
  <2>1. /\ UNCHANGED <<setup, te, got, esc, typed, toServer, rsig>> /\ rpc' # "idle"
        /\ \A n \in rnodes' : Remote(n)
    BY <1>2 DEF ListRemote
  <2> QED
    BY <2>1 DEF KeepsReasons
<1>3. CASE SignalRemote
  <2> DEFINE to == {<<n, client[n]>> : n \in {m \in rnodes : Alive(m)}}
  <2>1. /\ UNCHANGED <<setup, te, got, esc, typed, rsig>> /\ rpc' = "grace" /\ rnodes' = {}
        /\ SendSignals(to, rsig)
    BY <1>3 DEF SignalRemote
  <2>2. \A s \in Session \cap to : s \notin Local
    BY TerminationAssumption DEF Remote
  <2> HIDE DEF to
  <2>3. /\ toServer' \in [Session -> Seq(ServerMessage)]
        /\ \A s \in Session : Carries(toServer'[s]) => Carries(toServer[s]) \/ s \in to
    BY <2>1, SignalSent
  <2> QED
    BY <2>1, <2>2, <2>3 DEF KeepsReasons
<1>4. ASSUME NEW s \in Session, TerminateLocal(s) PROVE KeepsReasons
  <2>1. /\ UNCHANGED <<setup, te, got, typed, toServer, rpc, rsig, rnodes>>
        /\ UNCHANGED esc \/ esc' = [esc EXCEPT ![s] = "INT"]
    BY <1>4 DEF TerminateLocal, Terminate
  <2> QED
    BY <2>1 DEF KeepsReasons, Signal
<1>5. ASSUME NEW e, Gone(e) PROVE KeepsReasons
  <2>1. /\ UNCHANGED <<setup, te, got, typed, rpc, rsig, rnodes>>
        /\ esc' = [s \in Session |-> IF s \in Local THEN "done" ELSE esc[s]]
        /\ toServer' = [s \in Session |-> IF s \in Local THEN <<>> ELSE toServer[s]]
    BY <1>5 DEF Gone
  <2> QED
    BY <2>1, CarriesNone DEF KeepsReasons
<1> QED
  BY <1>1, <1>2, <1>3, <1>4, <1>5 DEF ExitStep, ExitProgram, Crash

LEMMA SignalNextInv == SignalInv /\ [Next]_vars => SignalInv'
<1> SUFFICES ASSUME SignalInv, [Next]_vars PROVE SignalInv'
  OBVIOUS
<1>1. CASE UNCHANGED vars
  BY <1>1, SignalStays, KeepsReasonsInv
     DEF vars, sessionVars, procVars, srvVars, netVars, exitVars, signalVars
<1>2. ASSUME NEW s \in Session, Dials(s) PROVE KeepsReasons
  BY <1>2, SignalStays DEF Dials, Dial, procVars, exitVars, signalVars
<1>3. ASSUME NEW s \in Session, SessionStep(s) PROVE KeepsReasons
  BY <1>3, SignalServer, SignalClient DEF SessionStep, exitVars
<1> QED
  BY <1>1, <1>2, <1>3, SignalEnvironment, SignalTimeout, SignalNode, SignalExit, KeepsReasonsInv DEF Next

(* No signal goes astray: the process that gets one has timed out itself, or *)
(* its server terminates it, or runtree ends its remote processes; also when *)
(* the node of the start has been started again meanwhile.                   *)
THEOREM NoSignalGoesAstray == Spec => []SignalsMeant
<1>1. SignalInv => SignalsMeant
  BY DEF SignalInv
<1> QED
  BY <1>1, SignalInitInv, SignalNextInv, PTL DEF Spec

-----------------------------------------------------------------------------
(* What the tree sees of a process.                                         *)

Frame == {"STATE", "ERROR", "why"} \cup ProcState

TellsOk(q) == \E i \in 1..Len(q) : q[i] = "ok"

LEMMA TellsLess ==
  ASSUME NEW q \in Seq(Frame), Len(q) >= 2
  PROVE  /\ SubSeq(q, 3, Len(q)) \in Seq(Frame)
         /\ TellsOk(SubSeq(q, 3, Len(q))) => TellsOk(q)
         /\ q[2] = "ok" => TellsOk(q)
<1>1. Len(q) \in Nat
  BY LenProperties
<1>2. /\ SubSeq(q, 3, Len(q)) \in Seq(Frame) /\ Len(SubSeq(q, 3, Len(q))) = Len(q) - 2
      /\ \A i \in 1..Len(q) - 2 : SubSeq(q, 3, Len(q))[i] = q[i + 2]
  <2>1. \A i \in 3..Len(q) : q[i] \in Frame
    BY <1>1, ElementOfSeq
  <2>2. /\ SubSeq(q, 3, Len(q)) \in Seq(Frame) /\ Len(SubSeq(q, 3, Len(q))) = IF 3 <= Len(q) THEN Len(q) - 3 + 1 ELSE 0
        /\ \A i \in 1..Len(q) - 3 + 1 : SubSeq(q, 3, Len(q))[i] = q[3 + i - 1]
    BY <1>1, <2>1, SubSeqProperties
  <2>3. Len(q) - 3 + 1 = Len(q) - 2 /\ \A i \in Nat : 3 + i - 1 = i + 2
    BY <1>1
  <2> HIDE DEF Frame
  <2> QED
    BY <1>1, <2>2, <2>3
<1>3. \A i \in 1..Len(q) - 2 : i + 2 \in 1..Len(q)
  BY <1>1
<1> QED
  BY <1>1, <1>2, <1>3 DEF TellsOk

LEMMA TellsMore ==
  ASSUME NEW q \in Seq(Frame), NEW r \in Seq(Frame)
  PROVE  q \o r \in Seq(Frame) /\ (TellsOk(q \o r) => TellsOk(q) \/ TellsOk(r))
<1>1. /\ q \o r \in Seq(Frame) /\ Len(q) \in Nat /\ Len(r) \in Nat /\ Len(q \o r) = Len(q) + Len(r)
      /\ \A i \in 1..Len(q) + Len(r) : (q \o r)[i] = IF i <= Len(q) THEN q[i] ELSE r[i - Len(q)]
  BY ConcatProperties, LenProperties
<1>2. \A i \in 1..Len(q) + Len(r) : i \in 1..Len(q) \/ (i - Len(q) \in 1..Len(r) /\ ~(i <= Len(q)))
  BY <1>1
<1> QED
  BY <1>1, <1>2 DEF TellsOk

ViewTypeOK ==
  /\ cl \in [Session -> {"none", "dialing", "refused", "up"}] /\ rx = [s \in Session |-> rx[s]]
  /\ tm = [s \in Session |-> tm[s]]
  /\ last \in [Session -> {"alive", "ok", "err"}] /\ closed \in [Session -> BOOLEAN]
  /\ broken \in [Session -> BOOLEAN]
  /\ toClient \in [Session -> Seq(Frame)] /\ starts \in [Nodes -> Nat]

(* A success on its way is that of the process; before the client is up, and *)
(* while it receives the states, it has seen no end, but a terminal that     *)
(* could not be accepted.                                                    *)
ViewOK(s) ==
  /\ TellsOk(toClient[s]) => proc[s] = "ok"
  /\ cl[s] # "up" => rx[s] \in {"off", "done"} /\ tm[s] # "accept" /\ last[s] = "alive"
                     /\ ~closed[s] /\ ~broken[s]
  /\ rx[s] = "code" /\ ~closed[s] => last[s] = IF broken[s] THEN "err" ELSE "alive"
  /\ rx[s] = "bye" => last[s] \in {"ok", "err"}

(* The starts that are still to come.                                        *)
NotYet == \A n \in Nodes, k \in Numbers : k > starts[n] => cl[<<n, k>>] = "none"

ViewInv == LocalInv /\ ViewTypeOK /\ NotYet /\ \A s \in Session : ViewOK(s)

LEMMA ViewInitInv == Init => ViewInv
<1> SUFFICES ASSUME Init PROVE ViewInv
  OBVIOUS
<1>1. <<>> \in Seq(Frame) /\ ~TellsOk(<<>>)
  BY DEF TellsOk
<1> QED
  BY <1>1, LocalInitInv, TerminationAssumption
     DEF Init, SessionInit, All, ViewInv, ViewTypeOK, NotYet, ViewOK

clientVars == <<cl, rx, tm, last, closed, broken, starts>>

(* What every step but those of the client does: a process that succeeded    *)
(* has succeeded, and only of such a one a success is told.                  *)
TellsTruth ==
  /\ UNCHANGED clientVars /\ toClient' \in [Session -> Seq(Frame)]
  /\ \A s \in Session :
       /\ proc[s] = "ok" => proc'[s] = "ok"
       /\ TellsOk(toClient'[s]) => TellsOk(toClient[s]) \/ proc'[s] = "ok"

LEMMA TellsTruthInv == ViewInv /\ LocalInv' /\ TellsTruth => ViewInv'
BY DEF ViewInv, TellsTruth, clientVars, ViewTypeOK, NotYet, ViewOK

LEMMA PutFrames ==
  ASSUME ViewTypeOK, NEW s \in Session, NEW frames \in Seq(Frame), Put(s, frames)
  PROVE  /\ toClient' \in [Session -> Seq(Frame)]
         /\ \A t \in Session : TellsOk(toClient'[t]) => TellsOk(toClient[t]) \/ (t = s /\ TellsOk(frames))
<1>1. CASE UNCHANGED toClient
  BY <1>1 DEF ViewTypeOK
<1>2. CASE toClient' = [toClient EXCEPT ![s] = toClient[s] \o frames]
  BY <1>2, TellsMore DEF ViewTypeOK
<1> QED
  BY <1>1, <1>2 DEF Put

LEMMA ViewServer ==
  ASSUME ViewInv, NEW s \in Session, ServerStep(s), UNCHANGED starts PROVE TellsTruth
<1> USE DEF ViewInv, cliVars, clientVars
<1>1. UNCHANGED clientVars
  BY DEF ServerStep, ReceiveArgs, Launch, Register, SendStart, SendExit, Wait, Return, Input,
         Command, Answer, CommandError, TerminateProcess, sessionVars
<1>2. \A t \in Session : proc[t] = "ok" => proc'[t] = "ok"
  BY ServerMove DEF ServerGoesOn, ProcessStarts, LocalInv
<1>3. CASE UNCHANGED toClient
  BY <1>1, <1>2, <1>3 DEF TellsTruth, ViewTypeOK
<1>4. CASE SendStart(s)
  <2>1. PICK v \in {"alive", "err"} : Put(s, <<"STATE", v>>)
    BY <1>4 DEF SendStart
  <2>2. <<"STATE", v>> \in Seq(Frame) /\ ~TellsOk(<<"STATE", v>>)
    BY <2>1 DEF Frame, ProcState, TellsOk
  <2> QED
    BY <1>1, <1>2, <2>1, <2>2, PutFrames DEF TellsTruth
<1>5. CASE SendExit(s)
  <2>1. PICK v \in {"STATE", proc[s]} : Put(s, <<v>>) /\ UNCHANGED proc
    BY <1>5 DEF SendExit, procVars
  <2>2. <<v>> \in Seq(Frame) /\ (TellsOk(<<v>>) => proc[s] = "ok")
    BY <2>1 DEF Frame, LocalInv, TellsOk
  <2> QED
    BY <1>1, <1>2, <2>1, <2>2, PutFrames DEF TellsTruth
<1>6. CASE Answer(s)
  <2>1. PICK v \in {"ERROR", "why"} : Put(s, <<v>>)
    BY <1>6 DEF Answer
  <2>2. <<v>> \in Seq(Frame) /\ ~TellsOk(<<v>>)
    BY <2>1 DEF Frame, TellsOk
  <2> QED
    BY <1>1, <1>2, <2>1, <2>2, PutFrames DEF TellsTruth
<1> QED
  BY <1>3, <1>4, <1>5, <1>6
     DEF ServerStep, ReceiveArgs, Launch, Register, Wait, Return, Input, Command, CommandError,
         TerminateProcess, netVars

(* What the client of one start does with its own variables.                 *)
OnlyAt(s) ==
  /\ UNCHANGED proc /\ ViewTypeOK'
  /\ \A t \in Session \ {s} :
       /\ cl'[t] = cl[t] /\ rx'[t] = rx[t] /\ tm'[t] = tm[t] /\ last'[t] = last[t]
       /\ closed'[t] = closed[t] /\ broken'[t] = broken[t] /\ toClient'[t] = toClient[t]

(* The steps of the view of a start that Process allows.                     *)
Sees(s) ==
  \/ ViewOf(s)' = ViewOf(s)
  \/ ViewOf(s) = "none" /\ ViewOf(s)' = "connecting"
  \/ ViewOf(s) = "connecting" /\ ViewOf(s)' \in {"refused", "alive"}
  \/ ViewOf(s) = "alive" /\ ViewOf(s)' = "err"
  \/ ViewOf(s) = "alive" /\ ViewOf(s)' = "ok" /\ proc[s] = "ok"
  \/ ViewOf(s) \in {"alive", "ok", "err"} /\ ViewOf(s)' = "unattached"
  \/ ViewOf(s) = "unattached" /\ ViewOf(s)' = "alive"
  \/ ViewOf(s) = "unattached" /\ ViewOf(s)' = "ok" /\ proc[s] = "ok"
  \/ ViewOf(s) \in {"alive", "ok", "err", "unattached"} /\ ViewOf(s)' = "closed"

LEMMA OnlyAtInv ==
  ASSUME ViewInv, LocalInv', NEW s \in Session, OnlyAt(s), UNCHANGED starts, ViewOK(s)',
         cl[s] = "none" => cl'[s] = "none"
  PROVE  ViewInv'
<1>1. \A t \in Session \ {s} : ViewOK(t)'
  BY DEF ViewInv, OnlyAt, ViewOK
<1>2. NotYet'
  <2>1. \A t \in Session : cl[t] = "none" => cl'[t] = "none"
    BY DEF OnlyAt
  <2>2. \A n \in Nodes, k \in Numbers : <<n, k>> \in Session
    BY TerminationAssumption
  <2> QED
    BY <2>1, <2>2 DEF ViewInv, NotYet
<1> QED
  BY <1>1, <1>2 DEF ViewInv, OnlyAt

LEMMA ViewIs ==
  ASSUME NEW s \in Session, cl[s] \in {"none", "dialing", "refused", "up"}
  PROVE  ViewOf(s) = IF cl[s] = "none" THEN "none" ELSE IF cl[s] = "dialing" THEN "connecting"
                     ELSE IF cl[s] = "refused" THEN "refused" ELSE IF closed[s] THEN "closed"
                     ELSE IF broken[s] /\ last[s] = "err" THEN "unattached" ELSE last[s]
BY DEF ViewOf

LEMMA ViewIsNext ==
  ASSUME NEW s \in Session, cl'[s] \in {"none", "dialing", "refused", "up"}
  PROVE  ViewOf(s)' = IF cl'[s] = "none" THEN "none" ELSE IF cl'[s] = "dialing" THEN "connecting"
                      ELSE IF cl'[s] = "refused" THEN "refused" ELSE IF closed'[s] THEN "closed"
                      ELSE IF broken'[s] /\ last'[s] = "err" THEN "unattached" ELSE last'[s]
BY DEF ViewOf

ClientOrTerminal(s) == ClientStep(s) \/ Attach(s) \/ AcceptFails(s) \/ Close(s)

(* It sees the start of the process, or its end, as it is told, once; a      *)
(* failure of the connection only before; and it may be closed, or without   *)
(* its terminal.                                                             *)
LEMMA ViewClient ==
  ASSUME ViewInv, NEW s \in Session, ClientOrTerminal(s), UNCHANGED starts
  PROVE  OnlyAt(s) /\ ViewOK(s)' /\ Sees(s) /\ (cl[s] = "none" => cl'[s] = "none")
<1> USE DEF procVars, srvVars, netVars
<1>1. /\ cl \in [Session -> {"none", "dialing", "refused", "up"}] /\ rx = [t \in Session |-> rx[t]]
      /\ tm = [t \in Session |-> tm[t]] /\ last \in [Session -> {"alive", "ok", "err"}]
      /\ closed \in [Session -> BOOLEAN] /\ broken \in [Session -> BOOLEAN]
      /\ toClient \in [Session -> Seq(Frame)] /\ starts \in [Nodes -> Nat] /\ ViewOK(s)
  BY DEF ViewInv, ViewTypeOK
<1>2. CASE StartPty(s)
  <2>1. /\ UNCHANGED <<proc, toClient, last, closed, broken>>
        /\ cl[s] = "dialing" /\ ~closed[s] /\ ~broken[s] /\ last[s] = "alive"
        /\ \/ /\ cl' = [cl EXCEPT ![s] = "up"] /\ rx' = [rx EXCEPT ![s] = "code"]
              /\ tm' = [tm EXCEPT ![s] = IF setup[s].terminal THEN "accept" ELSE "copy"]
           \/ cl' = [cl EXCEPT ![s] = "refused"] /\ UNCHANGED <<rx, tm>>
    BY <1>1, <1>2 DEF StartPty, ViewOK
  <2>2. OnlyAt(s) /\ ViewOK(s)'
    BY <1>1, <2>1 DEF OnlyAt, ViewTypeOK, ViewOK
  <2> QED
    BY <1>1, <2>1, <2>2, ViewIs, ViewIsNext DEF Sees
<1>3. CASE ReceiveError(s)
  <2>1. /\ UNCHANGED <<proc, cl, tm, closed, broken>> /\ rx[s] = "code" /\ cl[s] = "up"
        /\ last' = [last EXCEPT ![s] = "err"] /\ rx' = [rx EXCEPT ![s] = "done"]
        /\ toClient' = [toClient EXCEPT ![s] = <<>>]
    BY <1>1, <1>3 DEF ReceiveError, StopClient, ViewOK
  <2>2. <<>> \in Seq(Frame) /\ ~TellsOk(<<>>)
    BY DEF TellsOk
  <2>3. OnlyAt(s) /\ ViewOK(s)'
    BY <1>1, <2>1, <2>2 DEF OnlyAt, ViewTypeOK, ViewOK
  <2> QED
    BY <1>1, <2>1, <2>3, ViewIs, ViewIsNext DEF Sees, ViewOK
<1>4. CASE ReceiveState(s)
  <2> DEFINE q == toClient[s]
  <2>1. /\ UNCHANGED <<proc, cl, tm, closed, broken>> /\ rx[s] = "code" /\ cl[s] = "up"
        /\ last' = [last EXCEPT ![s] = q[2]] /\ q[2] \in {"alive", "ok", "err"} /\ Len(q) >= 2
        /\ toClient' = [toClient EXCEPT ![s] = SubSeq(q, 3, Len(q))]
        /\ q[2] = "alive" => rx' = [rx EXCEPT ![s] = IF closed[s] \/ broken[s] THEN "done" ELSE "code"]
        /\ q[2] # "alive" => rx' = [rx EXCEPT ![s] = "bye"]
    BY <1>1, <1>4 DEF ReceiveState, Message, Again, States, ViewOK
  <2>2. /\ SubSeq(q, 3, Len(q)) \in Seq(Frame) /\ (TellsOk(SubSeq(q, 3, Len(q))) => TellsOk(q))
        /\ q[2] = "ok" => proc[s] = "ok"
    BY <1>1, <2>1, TellsLess DEF ViewOK
  <2> HIDE DEF q
  <2>3. q = toClient[s]
    BY DEF q
  <2>4. OnlyAt(s) /\ ViewOK(s)'
    BY <1>1, <2>1, <2>2, <2>3 DEF OnlyAt, ViewTypeOK, ViewOK
  <2> QED
    BY <1>1, <2>1, <2>2, <2>4, ViewIs, ViewIsNext DEF Sees, ViewOK
<1>5. CASE Bye(s)
  <2>1. /\ UNCHANGED <<proc, cl, tm, closed, broken, toClient>> /\ cl[s] = "up"
        /\ rx' = [rx EXCEPT ![s] = "done"] /\ last' = last
    BY <1>1, <1>5 DEF Bye, StopClient, ViewOK
  <2>2. OnlyAt(s) /\ ViewOK(s)'
    BY <1>1, <2>1 DEF OnlyAt, ViewTypeOK, ViewOK
  <2> QED
    BY <1>1, <2>1, <2>2, ViewIs, ViewIsNext DEF Sees
<1>6. CASE ReceiveSignalError(s)
  <2>1. /\ UNCHANGED <<proc, cl, tm, closed, broken, last>> /\ cl[s] = "up" /\ rx[s] = "code" /\ Len(toClient[s]) >= 2
        /\ rx' = [rx EXCEPT ![s] = IF closed[s] \/ broken[s] THEN "done" ELSE "code"]
        /\ toClient' = [toClient EXCEPT ![s] = SubSeq(toClient[s], 3, Len(toClient[s]))]
    BY <1>1, <1>6 DEF ReceiveSignalError, Message, Again, ViewOK
  <2>2. /\ SubSeq(toClient[s], 3, Len(toClient[s])) \in Seq(Frame)
        /\ TellsOk(SubSeq(toClient[s], 3, Len(toClient[s]))) => TellsOk(toClient[s])
    BY <1>1, <2>1, TellsLess
  <2>3. OnlyAt(s) /\ ViewOK(s)'
    BY <1>1, <2>1, <2>2 DEF OnlyAt, ViewTypeOK, ViewOK
  <2> QED
    BY <1>1, <2>1, <2>3, ViewIs, ViewIsNext DEF Sees
<1>7. CASE Attach(s) \/ CopyEnds(s)
  <2>1. /\ UNCHANGED <<proc, cl, closed, broken, toClient, rx, last>>
        /\ tm' = [tm EXCEPT ![s] = tm'[s]] /\ tm'[s] # "accept"
    BY <1>1, <1>7 DEF Attach, CopyEnds
  <2>2. OnlyAt(s) /\ ViewOK(s)'
    BY <1>1, <2>1 DEF OnlyAt, ViewTypeOK, ViewOK
  <2> QED
    BY <1>1, <2>1, <2>2, ViewIs, ViewIsNext DEF Sees
<1>8. CASE Close(s)
  <2>1. /\ UNCHANGED <<proc, cl, rx, tm, broken, toClient>> /\ cl[s] = "up" /\ ~closed[s]
        /\ closed' = [closed EXCEPT ![s] = TRUE]
        /\ last' = [last EXCEPT ![s] = IF last[s] = "alive" THEN "ok" ELSE last[s]]
    BY <1>1, <1>8 DEF Close, StopClient
  <2>2. OnlyAt(s) /\ ViewOK(s)'
    BY <1>1, <2>1 DEF OnlyAt, ViewTypeOK, ViewOK
  <2> QED
    BY <1>1, <2>1, <2>2, ViewIs, ViewIsNext DEF Sees
<1>9. CASE AcceptFails(s)
  <2>1. /\ UNCHANGED <<proc, cl, rx, closed, toClient>> /\ cl[s] = "up"
        /\ tm' = [tm EXCEPT ![s] = "done"] /\ broken' = [broken EXCEPT ![s] = TRUE]
        /\ last' = [last EXCEPT ![s] = "err"]
    BY <1>1, <1>9 DEF AcceptFails, StopClient, ViewOK
  <2>2. OnlyAt(s) /\ ViewOK(s)'
    BY <1>1, <2>1 DEF OnlyAt, ViewTypeOK, ViewOK
  <2> QED
    BY <1>1, <2>1, <2>2, ViewIs, ViewIsNext DEF Sees
<1> QED
  BY <1>2, <1>3, <1>4, <1>5, <1>6, <1>7, <1>8, <1>9 DEF ClientStep, ClientOrTerminal

(* The steps of a session, for Process: the process of one start goes on, or *)
(* the view of one start.                                                    *)
Lives(s) ==
  \/ proc[s] = "none" /\ proc' = [proc EXCEPT ![s] = "alive"]
  \/ proc[s] = "alive" /\ \E r \in {"ok", "err"} : proc' = [proc EXCEPT ![s] = r]

ProcessStep ==
  \/ UNCHANGED <<proc, cl, last, closed, broken>>
  \/ \E s \in Session : Lives(s) /\ UNCHANGED <<cl, last, closed, broken>>
  \/ \E s \in Session : Sees(s) /\ UNCHANGED proc /\ \A t \in Session \ {s} : ViewOf(t)' = ViewOf(t)

LEMMA OnlyAtStep ==
  ASSUME ViewInv, NEW s \in Session, OnlyAt(s), Sees(s) PROVE ProcessStep
<1>1. \A t \in Session \ {s} : ViewOf(t)' = ViewOf(t)
  <2> TAKE t \in Session \ {s}
  <2>1. /\ cl[t] \in {"none", "dialing", "refused", "up"} /\ cl'[t] = cl[t] /\ last'[t] = last[t] /\ closed'[t] = closed[t]
        /\ broken'[t] = broken[t]
    BY DEF ViewInv, ViewTypeOK, OnlyAt
  <2> QED
    BY <2>1, ViewIs, ViewIsNext
<1> QED
  BY <1>1 DEF ProcessStep, OnlyAt

LEMMA ViewStays ==
  ASSUME ViewInv, LocalInv', UNCHANGED <<proc, clientVars, toClient>> PROVE ViewInv' /\ ProcessStep
BY TellsTruthInv DEF TellsTruth, ViewInv, ViewTypeOK, clientVars, ProcessStep

LEMMA ViewServerStep ==
  ASSUME ViewInv, LocalInv', NEW s \in Session, ServerStep(s), UNCHANGED starts PROVE ViewInv' /\ ProcessStep
<1>1. TellsTruth
  BY ViewServer
<1>2. UNCHANGED proc \/ Lives(s)
  BY ServerMove DEF ServerGoesOn, ProcessStarts, Lives, ViewInv, LocalInv
<1> QED
  BY <1>1, <1>2, TellsTruthInv DEF TellsTruth, clientVars, ProcessStep

LEMMA ViewExit ==
  ASSUME ViewInv, LocalInv', NEW s \in Session, Exit(s), UNCHANGED starts PROVE ViewInv' /\ ProcessStep
<1>1. UNCHANGED <<clientVars, toClient>> /\ Lives(s)
  <2>1. UNCHANGED <<clientVars, toClient>> /\ proc[s] = "alive"
    BY DEF Exit, netVars, cliVars, clientVars
  <2>2. \E r \in {"ok", "err"} : proc' = [proc EXCEPT ![s] = r]
    BY DEF Exit
  <2> QED
    BY <2>1, <2>2 DEF Lives
<1>2. TellsTruth
  BY <1>1 DEF TellsTruth, Lives, ViewInv, ViewTypeOK, LocalInv
<1> QED
  BY <1>1, <1>2, TellsTruthInv DEF ProcessStep, clientVars

LEMMA ViewClientStep ==
  ASSUME ViewInv, LocalInv', NEW s \in Session, ClientOrTerminal(s), UNCHANGED starts
  PROVE  ViewInv' /\ ProcessStep
BY ViewClient, OnlyAtInv, OnlyAtStep

(* Close of a client that is none of a start changes nothing of them.        *)
LEMMA ViewTerminalFailed ==
  ASSUME ViewInv, LocalInv', NEW n \in Nodes, TerminalFailed(n) PROVE ViewInv' /\ ProcessStep
<1>1. Close(<<n, client[n]>>) /\ UNCHANGED starts
  BY DEF TerminalFailed, treeVars
<1>2. CASE <<n, client[n]>> \in Session
  BY <1>1, <1>2, ViewClientStep DEF ClientOrTerminal
<1>3. CASE <<n, client[n]>> \notin Session
  <2>1. UNCHANGED <<proc, cl, rx, tm, broken, toClient>>
    BY <1>1 DEF Close, procVars
  <2>2. closed' = closed /\ last' = last
    BY <1>1, <1>3 DEF Close, StopClient, ViewInv, ViewTypeOK
  <2> QED
    BY <1>1, <2>1, <2>2, ViewStays DEF clientVars
<1> QED
  BY <1>2, <1>3

LEMMA ViewDials ==
  ASSUME ViewInv, LocalInv', NEW s \in Session, Dials(s) PROVE ViewInv' /\ ProcessStep
<1>1. /\ UNCHANGED <<proc, toClient, rx, tm, last, closed, broken, starts>> /\ cl[s] = "dialing"
      /\ UNCHANGED cl \/ cl' = [cl EXCEPT ![s] = "refused"]
  BY DEF Dials, Dial, procVars, treeVars
<1>2. /\ cl \in [Session -> {"none", "dialing", "refused", "up"}] /\ rx = [t \in Session |-> rx[t]]
      /\ tm = [t \in Session |-> tm[t]] /\ last \in [Session -> {"alive", "ok", "err"}]
      /\ closed \in [Session -> BOOLEAN] /\ broken \in [Session -> BOOLEAN]
      /\ toClient \in [Session -> Seq(Frame)] /\ starts \in [Nodes -> Nat] /\ ViewOK(s)
  BY DEF ViewInv, ViewTypeOK
<1>3. OnlyAt(s) /\ ViewOK(s)' /\ cl'[s] # "none"
  BY <1>1, <1>2 DEF OnlyAt, ViewTypeOK, ViewOK
<1>4. Sees(s)
  BY <1>1, <1>2, <1>3, ViewIs, ViewIsNext DEF Sees
<1> QED
  BY <1>1, <1>3, <1>4, OnlyAtInv, OnlyAtStep

LEMMA ViewStart ==
  ASSUME ViewInv, LocalInv', NEW n \in Nodes, Start(n) PROVE ViewInv' /\ ProcessStep
<1>0. PICK s : s = <<n, starts[n] + 1>>
  OBVIOUS
<1>1. /\ UNCHANGED <<proc, toClient, rx, tm, last, closed, broken>> /\ starts[n] + 1 \in Numbers
      /\ starts' = [starts EXCEPT ![n] = @ + 1] /\ cl' = [cl EXCEPT ![s] = "dialing"]
  BY <1>0 DEF Start, procVars, netVars
<1>2. s \in Session /\ starts \in [Nodes -> Nat]
  BY <1>0, <1>1, TerminationAssumption DEF ViewInv, ViewTypeOK
<1>3. cl[s] = "none" /\ NotYet'
  <2>1. cl[s] = "none"
    BY <1>0, <1>1, <1>2 DEF ViewInv, NotYet
  <2>2. ASSUME NEW m \in Nodes, NEW k \in Numbers, k > starts'[m] PROVE cl'[<<m, k>>] = "none"
    <3>1. k \in Nat /\ starts[m] \in Nat /\ k > starts[m] /\ <<m, k>> # s
      BY <1>0, <1>1, <1>2, <2>2, TerminationAssumption
    <3>2. <<m, k>> \in Session /\ cl[<<m, k>>] = "none"
      BY <3>1, TerminationAssumption DEF ViewInv, NotYet
    <3> QED
      BY <1>1, <3>1, <3>2 DEF ViewInv, ViewTypeOK
  <2> QED
    BY <2>1, <2>2 DEF NotYet
<1>4. /\ cl \in [Session -> {"none", "dialing", "refused", "up"}] /\ rx = [t \in Session |-> rx[t]]
      /\ tm = [t \in Session |-> tm[t]] /\ last \in [Session -> {"alive", "ok", "err"}]
      /\ closed \in [Session -> BOOLEAN] /\ broken \in [Session -> BOOLEAN]
      /\ toClient \in [Session -> Seq(Frame)] /\ ViewOK(s) /\ starts' \in [Nodes -> Nat]
  BY <1>1, <1>2 DEF ViewInv, ViewTypeOK
<1>5. OnlyAt(s) /\ ViewOK(s)'
  BY <1>1, <1>2, <1>3, <1>4 DEF OnlyAt, ViewTypeOK, ViewOK
<1>6. Sees(s)
  BY <1>1, <1>2, <1>3, <1>4, ViewIs, ViewIsNext DEF Sees
<1>7. \A t \in Session \ {s} : ViewOK(t)'
  BY <1>5 DEF ViewInv, OnlyAt, ViewOK
<1> QED
  BY <1>2, <1>3, <1>5, <1>6, <1>7, OnlyAtStep DEF ViewInv, OnlyAt

LEMMA ViewGone ==
  ASSUME ViewInv, LocalInv', NEW e, Gone(e) PROVE ViewInv' /\ ProcessStep
<1>1. /\ UNCHANGED <<proc, cl, last, closed, broken, starts>> /\ rx' = [s \in Session |-> "done"]
      /\ tm' = [s \in Session |-> "done"]
      /\ toClient' = [s \in Session |-> <<>>]
  BY DEF Gone, procVars, treeVars, All
<1>2. <<>> \in Seq(Frame) /\ ~TellsOk(<<>>)
  BY DEF TellsOk
<1>3. ViewTypeOK' /\ NotYet'
  BY <1>1, <1>2 DEF ViewInv, ViewTypeOK, NotYet
<1>4. \A s \in Session : ViewOK(s)'
  BY <1>1, <1>2 DEF ViewInv, ViewOK
<1> QED
  BY <1>1, <1>3, <1>4 DEF ViewInv, ProcessStep

(* The steps that touch none of this.                                        *)
viewVars == <<proc, clientVars, toClient>>

LEMMA ViewKept ==
  /\ \A n \in Nodes : Connected(n) \/ StateSeen(n) \/ CheckTimeout(n) => UNCHANGED viewVars
  /\ \A s \in Session :
       /\ (RestExits(s) \/ ConnectionLost(s) \/ OutputEnds(s)) /\ UNCHANGED treeVars => UNCHANGED viewVars
       /\ TimeoutStep(s) \/ TerminateLocal(s) => UNCHANGED viewVars
  /\ StopRunning \/ StopLocal \/ AllReturned \/ StopLocalTimeout => UNCHANGED viewVars
  /\ RemoteStarted \/ ListRemote \/ SignalRemote \/ RemoteGraceOver => UNCHANGED viewVars
<1> USE DEF sessionVars, procVars, netVars, cliVars, treeVars, clientVars, viewVars
<1>1. ASSUME NEW n \in Nodes, Connected(n) \/ StateSeen(n) \/ CheckTimeout(n) PROVE UNCHANGED viewVars
  BY <1>1 DEF Connected, StateSeen, CheckTimeout
<1>2. ASSUME NEW s \in Session, RestExits(s) \/ ConnectionLost(s) \/ OutputEnds(s), UNCHANGED treeVars
      PROVE UNCHANGED viewVars
  BY <1>2 DEF RestExits, ConnectionLost, OutputEnds
<1>3. ASSUME NEW s \in Session, TimeoutStep(s) \/ TerminateLocal(s) PROVE UNCHANGED viewVars
  BY <1>3 DEF TimeoutStep, TypeCtrlC, GraceOver, SendTimeoutSignal, TerminateLocal, Terminate
<1>4. StopRunning \/ StopLocal \/ AllReturned \/ StopLocalTimeout => UNCHANGED viewVars
  BY DEF StopRunning, StopLocal, AllReturned, StopLocalTimeout
<1>5. RemoteStarted \/ ListRemote \/ RemoteGraceOver => UNCHANGED viewVars
  BY DEF RemoteStarted, ListRemote, RemoteGraceOver
<1>6. SignalRemote => UNCHANGED viewVars
  BY DEF SignalRemote
<1> HIDE DEF sessionVars, procVars, netVars, cliVars, treeVars, clientVars, viewVars
<1> QED
  BY <1>1, <1>2, <1>3, <1>4, <1>5, <1>6

LEMMA ViewNext == ViewInv /\ [Next]_vars => ViewInv' /\ ProcessStep
<1> SUFFICES ASSUME ViewInv, [Next]_vars PROVE ViewInv' /\ ProcessStep
  OBVIOUS
<1>1. LocalInv'
  BY LocalNextInv DEF ViewInv
<1>2. CASE UNCHANGED viewVars
  BY <1>1, <1>2, ViewStays DEF viewVars
<1>3. CASE UNCHANGED vars
  BY <1>2, <1>3 DEF vars, sessionVars, procVars, netVars, cliVars, treeVars, clientVars, viewVars
<1>4. ASSUME NEW n \in Nodes, Start(n) \/ Connected(n) \/ StateSeen(n) \/ TerminalFailed(n) \/ CheckTimeout(n)
      PROVE ViewInv' /\ ProcessStep
  BY <1>1, <1>2, <1>4, ViewStart, ViewTerminalFailed, ViewKept
<1>5. ASSUME NEW s \in Session, SessionStep(s) PROVE ViewInv' /\ ProcessStep
  BY <1>1, <1>5, ViewServerStep, ViewClientStep DEF SessionStep, ClientOrTerminal, treeVars
<1>6. ASSUME NEW s \in Session, Environment(s) PROVE ViewInv' /\ ProcessStep
  <2>1. UNCHANGED treeVars /\ UNCHANGED starts
    BY <1>6 DEF Environment, treeVars
  <2> QED
    BY <1>1, <1>2, <1>6, <2>1, ViewExit, ViewClientStep, ViewKept DEF Environment, ClientOrTerminal
<1>7. ASSUME NEW s \in Session, Dials(s) \/ TimeoutStep(s) \/ TerminateLocal(s) PROVE ViewInv' /\ ProcessStep
  BY <1>1, <1>2, <1>7, ViewDials, ViewKept
<1>8. CASE StopRunning \/ StopLocal \/ AllReturned \/ StopLocalTimeout
  BY <1>2, <1>8, ViewKept
<1>9. CASE RemoteStarted \/ ListRemote \/ SignalRemote \/ RemoteGraceOver
  BY <1>2, <1>9, ViewKept
<1>10. CASE ExitProgram \/ Crash
  BY <1>1, <1>10, ViewGone DEF ExitProgram, Crash
<1> QED
  BY <1>3, <1>4, <1>5, <1>6, <1>7, <1>8, <1>9, <1>10 DEF Next, ExitStep

(* Every start, whatever its runner, its connection, its terminal and its    *)
(* end are, is what Process promises to the tree: the tree sees a success    *)
(* only of a process that succeeded, and its end is final, but for that of a *)
(* start whose terminal could not be accepted.                               *)
THEOREM SessionsImplementProcess == Spec => ImplementsProcess
<1>1. Init => Promised!Init
  BY DEF Init, SessionInit, All, Promised!Init, ViewOf
<1>2. ViewInv /\ ProcessStep => [Promised!Next]_(Promised!vars)
  <2> SUFFICES ASSUME ViewInv, ProcessStep PROVE Promised!Next \/ UNCHANGED Promised!vars
    OBVIOUS
  <2> DEFINE view == [s \in Session |-> ViewOf(s)]
  <2>1. CASE UNCHANGED <<proc, cl, last, closed, broken>>
    <3>1. view' = view
      BY <2>1 DEF ViewOf
    <3> QED
      BY <2>1, <3>1 DEF Promised!vars
  <2>2. ASSUME NEW s \in Session, Lives(s), UNCHANGED <<cl, last, closed, broken>> PROVE Promised!Next
    <3>1. view' = view
      BY <2>2 DEF ViewOf
    <3>2. Promised!Live(s)
      BY <2>2, <3>1 DEF Promised!Live, Lives
    <3> QED
      BY <3>2 DEF Promised!Next
  <2>3. ASSUME NEW s \in Session, Sees(s), UNCHANGED proc, \A t \in Session \ {s} : ViewOf(t)' = ViewOf(t)
        PROVE Promised!Next \/ UNCHANGED Promised!vars
    <3>1. view' = [view EXCEPT ![s] = ViewOf(s)']
      BY <2>3
    <3>2. CASE ViewOf(s)' = ViewOf(s)
      BY <2>3, <3>1, <3>2 DEF Promised!vars
    <3>3. CASE ViewOf(s)' # ViewOf(s)
      <4>1. ViewOf(s)' \in Promised!View
        BY <2>3, <3>3 DEF Sees, Promised!View
      <4>2. Promised!See(s)
        BY <2>3, <3>1, <3>3, <4>1 DEF Sees, Promised!See
      <4> QED
        BY <4>2 DEF Promised!Next
    <3> QED
      BY <3>2, <3>3
  <2> QED
    BY <2>1, <2>2, <2>3 DEF ProcessStep
<1> QED
  BY <1>1, <1>2, ViewInitInv, ViewNext, PTL DEF Spec, ImplementsProcess, Promised!Spec
=============================================================================
