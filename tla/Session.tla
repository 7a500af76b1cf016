------------------------------ MODULE Session ------------------------------
(***************************************************************************)
(* The sessions of the runner protocol (client.go, server.go): one start   *)
(* of a run node is one session, of a client, a connection, a server and   *)
(* the process that the server runs.  The goroutines of a session are its  *)
(* connect, receiveCommands and run on the client, ServePty, recvCommands, *)
(* the two connectStreams and terminateProcess on the server.              *)
(*                                                                         *)
(* A message to the client is two frames, its code and its body, and the   *)
(* server writes the two without a lock: toClient is a sequence of frames. *)
(* The client writes with cmdLock: toServer is a sequence of messages.     *)
(***************************************************************************)
EXTENDS Naturals, Sequences

CONSTANTS
  Session,  \* the starts
  Setups    \* how the starts may be set up: the runner of each is "local", "ssh" (the server is a
            \* process of its own) or "tcp"; noTerm: its system has no SIGTERM; terminal:
            \* it has a terminal (not SetNoTerminal); may: what happens to it besides

Happening == {"refused", "loss", "rest", "timeout", "terminal", "accept", "exit", "rerun",
              "overlap"}

ASSUME SetupAssumption ==
  \A f \in Setups : f \in [Session -> [runner: {"local", "ssh", "tcp"}, noTerm: BOOLEAN, terminal: BOOLEAN,
                                     may: SUBSET Happening]]

VARIABLES
  setup,        \* the set-up of the starts, it never changes
  proc,         \* the command: "none", "alive", "ok" (exit code 0), "err"
  rest,         \* the command has exited, and others of its group have not
  got,          \* the strongest signal that the processes of the group that live have got
  srv,          \* ServePty: how far it is
  registered,   \* Server.ptyRunner is set
  terminating,  \* Server.terminating
  esc,          \* terminateProcess: "no", or the signal it sends next, or "done"
  rc,           \* recvCommands
  out, inp,     \* connectStreams from and to the process: "off", "on", "done"
  up,           \* the connection is open
  toClient,     \* the frames on their way to the client
  toServer,     \* the messages on their way to the server
  typed,        \* Ctrl+C is on its way on the pty stream
  cl,           \* connect: "none", "dialing", "refused", "up"
  rx,           \* receiveCommands
  tm,           \* run: "off", "accept", "copy", "done" (the output is closed)
  last,         \* Client.lastState: "alive", "ok", "err"
  closed,       \* the tree closed the client (TerminalFailed)
  broken,       \* run could not accept the terminal
  mixed         \* history: the client could not decode a message

procVars == <<setup, proc, rest, got>>
srvVars  == <<srv, registered, terminating, esc, rc, out, inp>>
netVars  == <<up, toClient, toServer, typed>>
cliVars  == <<cl, rx, tm, last, closed, broken, mixed>>
sessionVars == <<procVars, srvVars, netVars, cliVars>>

Signal  == {"INT", "TERM", "KILL"}
After   == [INT |-> "TERM", TERM |-> "KILL", KILL |-> "done"]

All(v) == [s \in Session |-> v]

Local == {s \in Session : setup[s].runner = "local"}

SessionInit ==
  /\ setup \in Setups
  /\ proc = All("none") /\ rest = All(FALSE) /\ got = All("no")
  /\ srv = All("none") /\ registered = All(FALSE) /\ terminating = All(FALSE) /\ esc = All("no")
  /\ rc = All("off") /\ out = All("off") /\ inp = All("off")
  /\ up = All(FALSE) /\ toClient = All(<<>>) /\ toServer = All(<<>>) /\ typed = All(FALSE)
  /\ cl = All("none") /\ rx = All("off") /\ tm = All("off")
  /\ last = All("alive") /\ closed = All(FALSE) /\ broken = All(FALSE) /\ mixed = All(FALSE)

-----------------------------------------------------------------------------
(* The process, and the connection.                                         *)

(* It exits by itself or because of a signal; other processes of its group  *)
(* may outlive it, unless they got SIGKILL too.                             *)
Exit(s) ==
  /\ proc[s] = "alive"
  /\ \E r \in {"ok", "err"} : proc' = [proc EXCEPT ![s] = IF got[s] = "KILL" THEN "err" ELSE r]
  /\ \E b \in BOOLEAN :
       /\ b => "rest" \in setup[s].may /\ got[s] # "KILL"
       /\ rest' = [rest EXCEPT ![s] = b]
       /\ got' = IF b THEN got ELSE [got EXCEPT ![s] = "no"]
  /\ UNCHANGED <<setup, srvVars, netVars, cliVars>>

RestExits(s) ==
  /\ rest[s]
  /\ rest' = [rest EXCEPT ![s] = FALSE] /\ got' = [got EXCEPT ![s] = "no"]
  /\ UNCHANGED <<setup, proc, srvVars, netVars, cliVars>>

ConnectionLost(s) ==
  /\ "loss" \in setup[s].may /\ up[s]
  /\ up' = [up EXCEPT ![s] = FALSE]
  /\ UNCHANGED <<procVars, srvVars, toClient, toServer, typed, cliVars>>

(* The process group has a member: the command is there until it is waited  *)
(* for, the others until they exit.                                         *)
Waited(s)     == srv[s] \notin {"none", "dialed", "launch", "launched", "hello", "wait"}
GroupAlive(s) == proc[s] # "none" /\ (~Waited(s) \/ rest[s])

Weaker  == [INT |-> {"no"}, TERM |-> {"no", "INT"}, KILL |-> {"no", "INT", "TERM"}]
Deliver(s, sig) ==
  got' = [got EXCEPT ![s] = IF (proc[s] = "alive" \/ rest[s]) /\ @ \in Weaker[sig] THEN sig ELSE @]

Put(s, frames) ==
  toClient' = IF up[s] /\ rx[s] # "done" THEN [toClient EXCEPT ![s] = @ \o frames] ELSE toClient

(* requestStop of the server with an error: the process is terminated, once. *)
Abandon(s) ==
  esc' = IF esc[s] = "no" /\ registered[s] THEN [esc EXCEPT ![s] = "INT"] ELSE esc

-----------------------------------------------------------------------------
(* The server: ServePty.                                                    *)

Goto(s, pc) == srv' = [srv EXCEPT ![s] = pc]

(* It receives the arguments, or the connection ends before.                *)
ReceiveArgs(s) ==
  /\ srv[s] = "dialed"
  /\ \/ /\ toServer[s] # <<>> /\ Head(toServer[s]) = "args"
        /\ Goto(s, "launch")
        /\ toServer' = [toServer EXCEPT ![s] = Tail(@)] /\ UNCHANGED up
     \/ ~up[s] /\ Goto(s, "gone") /\ UNCHANGED <<up, toServer>>
  /\ UNCHANGED <<procVars, registered, terminating, esc, rc, out, inp, toClient, typed, cliVars>>

(* startPty: the process starts, or it cannot be started (startFailed).      *)
Launch(s) ==
  /\ srv[s] = "launch"
  /\ \/ Goto(s, "launched") /\ proc' = [proc EXCEPT ![s] = "alive"]
     \/ Goto(s, "failed") /\ UNCHANGED proc
  /\ UNCHANGED <<setup, rest, got, registered, terminating, esc, rc, out, inp, netVars, cliVars>>

(* Mistake: Terminate that came before the registration is forgotten.        *)
RegisterOnly(s) ==
  /\ srv[s] = "launched"
  /\ Goto(s, "hello")
  /\ registered' = [registered EXCEPT ![s] = TRUE]
  /\ UNCHANGED <<procVars, terminating, esc, rc, out, inp, netVars, cliVars>>

(* The process is registered under startLock, and terminated when Terminate  *)
(* was called meanwhile.                                                     *)
Register(s) ==
  /\ srv[s] = "launched"
  /\ Goto(s, "hello")
  /\ registered' = [registered EXCEPT ![s] = TRUE]
  /\ esc' = IF terminating[s] THEN [esc EXCEPT ![s] = "INT"] ELSE esc
  /\ UNCHANGED <<procVars, terminating, rc, out, inp, netVars, cliVars>>

(* sendProcState when the process has started, or could not be started: no   *)
(* other goroutine writes yet.  The goroutines of the session begin.         *)
SendStart(s) ==
  /\ srv[s] \in {"hello", "failed"}
  /\ Put(s, <<"STATE", IF srv[s] = "hello" THEN "alive" ELSE "err">>)
  /\ Goto(s, IF srv[s] = "hello" THEN "wait" ELSE "drain")
  /\ rc' = [rc EXCEPT ![s] = "read"]
  /\ LET io == IF srv[s] = "hello" THEN "on" ELSE "off"
     IN  out' = [out EXCEPT ![s] = io] /\ inp' = [inp EXCEPT ![s] = io]
  /\ UNCHANGED <<procVars, registered, terminating, esc, up, toServer, typed, cliVars>>

(* sendProcState when it has exited: its code, then its body.                *)
SendExit(s) ==
  /\ srv[s] \in {"exited", "exited2"}
  /\ Put(s, <<IF srv[s] = "exited" THEN "STATE" ELSE proc[s]>>)
  /\ Goto(s, IF srv[s] = "exited" THEN "exited2" ELSE "drain")
  /\ UNCHANGED <<procVars, registered, terminating, esc, rc, out, inp, up, toServer, typed, cliVars>>

(* Cmd.Wait returns.                                                         *)
Wait(s) ==
  /\ srv[s] = "wait" /\ proc[s] # "alive"
  /\ Goto(s, "exited")
  /\ UNCHANGED <<procVars, registered, terminating, esc, rc, out, inp, netVars, cliVars>>

(* The goroutines of the session have ended (wg.Wait): ServePty closes the   *)
(* connection and returns.  An rtrunner that ssh started exits then, with its *)
(* goroutines.                                                               *)
Return(s) ==
  /\ srv[s] = "drain"
  /\ {rc[s], out[s], inp[s]} \subseteq {"off", "done"}
  /\ Goto(s, "gone")
  /\ up' = [up EXCEPT ![s] = FALSE]
  /\ esc' = IF setup[s].runner = "ssh" THEN [esc EXCEPT ![s] = "done"] ELSE esc
  /\ toServer' = [toServer EXCEPT ![s] = <<>>] /\ typed' = [typed EXCEPT ![s] = FALSE]
  /\ UNCHANGED <<procVars, registered, terminating, rc, out, inp, toClient, cliVars>>

-----------------------------------------------------------------------------
(* The server: its other goroutines.                                        *)

(* connectStreams of the output: it ends with the terminal of the processes, *)
(* or when it cannot be written.  That sets Server.stop.                     *)
OutputEnds(s) ==
  /\ out[s] = "on"
  /\ out' = [out EXCEPT ![s] = "done"]
  /\ UNCHANGED <<procVars, srv, registered, terminating, esc, rc, inp, netVars, cliVars>>

(* The command may close its terminal, and the rest of its group may hold it *)
(* open.  It ends for certain when none of them is left and what they wrote  *)
(* can be written: somebody reads it, or the connection is closed.           *)
OutputOver(s) == proc[s] # "alive" /\ ~rest[s] /\ (up[s] => tm[s] = "copy")

(* connectStreams of the input: it reads before it checks stop, so that it   *)
(* waits for the client to close the stream.  Ctrl+C goes to the processes   *)
(* in the foreground.                                                        *)
Input(s) ==
  /\ inp[s] = "on"
  /\ \/ /\ typed[s] /\ typed' = [typed EXCEPT ![s] = FALSE]
        /\ IF out[s] = "done" THEN inp' = [inp EXCEPT ![s] = "done"] /\ UNCHANGED got
                              ELSE Deliver(s, "INT") /\ UNCHANGED inp
     \/ /\ ~up[s]
        /\ inp' = [inp EXCEPT ![s] = "done"]
        /\ UNCHANGED <<got, typed>>
  /\ UNCHANGED <<setup, proc, rest, srv, registered, terminating, esc, rc, out, up, toClient, toServer, cliVars>>

(* recvCommands: a signal is sent to the group, or answered with an error.   *)
(* A disconnect ends it.                                                     *)
Command(s) ==
  /\ rc[s] = "read" /\ toServer[s] # <<>>
  /\ toServer' = [toServer EXCEPT ![s] = Tail(@)]
  /\ LET m == Head(toServer[s])
         sent == registered[s] /\ GroupAlive(s) /\ ~(m = "TERM" /\ setup[s].noTerm)
     IN  \/ m = "disconnect" /\ rc' = [rc EXCEPT ![s] = "done"] /\ UNCHANGED got
         \/ m \in Signal /\ sent /\ Deliver(s, m) /\ UNCHANGED rc
         \/ m \in Signal /\ ~sent /\ rc' = [rc EXCEPT ![s] = "answer"] /\ UNCHANGED got
  /\ UNCHANGED <<setup, proc, rest, srv, registered, terminating, esc, out, inp, up, toClient, typed, cliVars>>

(* sendError, its code and its body; an error of the connection ends it.     *)
Answer(s) ==
  /\ rc[s] \in {"answer", "answer2"} /\ up[s]
  /\ Put(s, <<IF rc[s] = "answer" THEN "ERROR" ELSE "why">>)
  /\ rc' = [rc EXCEPT ![s] = IF rc[s] = "answer" THEN "answer2" ELSE "read"]
  /\ UNCHANGED <<procVars, srv, registered, terminating, esc, out, inp, up, toServer, typed, cliVars>>

CommandError(s) ==
  /\ rc[s] \in {"read", "answer", "answer2"} /\ ~up[s]
  /\ rc' = [rc EXCEPT ![s] = "done"]
  /\ Abandon(s)
  /\ UNCHANGED <<procVars, srv, registered, terminating, out, inp, netVars, cliVars>>

(* terminateProcess sends the next signal after a grace period while the     *)
(* group is alive.                                                           *)
TerminateProcess(s) ==
  /\ esc[s] \in Signal
  /\ IF GroupAlive(s)
     THEN /\ esc' = [esc EXCEPT ![s] = After[@]]
          /\ IF esc[s] = "TERM" /\ setup[s].noTerm THEN UNCHANGED got ELSE Deliver(s, esc[s])
     ELSE esc' = [esc EXCEPT ![s] = "done"] /\ UNCHANGED got
  /\ UNCHANGED <<setup, proc, rest, srv, registered, terminating, rc, out, inp, netVars, cliVars>>

-----------------------------------------------------------------------------
(* The client.                                                              *)

(* NewClient: the local runner takes the connection unless it is stopped,    *)
(* another one may not answer.                                               *)
Dial(s, accepted) ==
  /\ cl[s] = "dialing" /\ srv[s] = "none" /\ ~up[s]
  /\ \/ /\ accepted /\ "refused" \notin setup[s].may
        /\ up' = [up EXCEPT ![s] = TRUE] /\ Goto(s, "dialed") /\ UNCHANGED cl
     \/ /\ ~accepted \/ s \notin Local
        /\ cl' = [cl EXCEPT ![s] = "refused"] /\ UNCHANGED <<up, srv>>
  /\ UNCHANGED <<procVars, registered, terminating, esc, rc, out, inp, toClient, toServer, typed,
                 rx, tm, last, closed, broken, mixed>>

(* The handshake and StartPty: the goroutines of the client begin, or the    *)
(* client is closed, because of the connection or of the socket of its       *)
(* terminal (createUnixSocket).                                              *)
StartPty(s) ==
  /\ cl[s] = "dialing" /\ srv[s] # "none"
  /\ \/ /\ up[s]
        /\ cl' = [cl EXCEPT ![s] = "up"]
        /\ rx' = [rx EXCEPT ![s] = "code"]
        /\ tm' = [tm EXCEPT ![s] = IF setup[s].terminal THEN "accept" ELSE "copy"]
        /\ toServer' = [toServer EXCEPT ![s] = <<"args">>]
        /\ UNCHANGED up
     \/ /\ ~up[s] \/ s \notin Local \/ setup[s].terminal
        /\ cl' = [cl EXCEPT ![s] = "refused"] /\ up' = [up EXCEPT ![s] = FALSE]
        /\ UNCHANGED <<rx, tm, toServer>>
  /\ UNCHANGED <<procVars, srvVars, toClient, typed, last, closed, broken, mixed>>

(* Mistake: it forgets an error that came before.                            *)
StopClientOk(s, err) == last' = [last EXCEPT ![s] = IF err THEN "err" ELSE "ok"]

(* requestStop of the client: it is stopped, and its process is over.        *)
StopClient(s, err) ==
  last' = [last EXCEPT ![s] = IF err THEN "err" ELSE IF @ = "alive" THEN "ok" ELSE @]

(* The loop of receiveCommands goes on unless the client is stopped.         *)
Again(s) == rx' = [rx EXCEPT ![s] = IF closed[s] \/ broken[s] THEN "done" ELSE "code"]

States == {"alive", "ok", "err"}

(* The message that can be decoded from the next frames.                     *)
Message(s, code, bodies) ==
  /\ rx[s] = "code" /\ Len(toClient[s]) >= 2
  /\ toClient[s][1] = code /\ toClient[s][2] \in bodies
  /\ toClient' = [toClient EXCEPT ![s] = SubSeq(@, 3, Len(@))]

(* Mistake: the goroutine ends and tells nobody.                             *)
ReceiveErrorQuiet(s) ==
  /\ rx[s] = "code" /\ ~up[s]
  /\ rx' = [rx EXCEPT ![s] = "done"]
  /\ toClient' = [toClient EXCEPT ![s] = <<>>]
  /\ UNCHANGED <<procVars, srvVars, up, toServer, typed, cl, tm, last, closed, broken, mixed>>

(* A message cannot be received, or not be decoded: the frames of two        *)
(* messages are mixed up.                                                    *)
ReceiveError(s) ==
  /\ rx[s] = "code"
  /\ \/ ~up[s] /\ UNCHANGED mixed
     \/ /\ Len(toClient[s]) >= 2
        /\ toClient[s][2] \notin (IF toClient[s][1] = "STATE" THEN States ELSE {"why"})
        /\ mixed' = [mixed EXCEPT ![s] = TRUE]
  /\ StopClient(s, TRUE)
  /\ rx' = [rx EXCEPT ![s] = "done"]
  /\ toClient' = [toClient EXCEPT ![s] = <<>>]
  /\ UNCHANGED <<procVars, srvVars, up, toServer, typed, cl, tm, closed, broken>>

(* recvProcState; after the exit status the client disconnects.              *)
ReceiveState(s) ==
  /\ Message(s, "STATE", States)
  /\ last' = [last EXCEPT ![s] = toClient[s][2]]
  /\ IF toClient[s][2] = "alive"
     THEN Again(s) /\ UNCHANGED toServer
     ELSE /\ rx' = [rx EXCEPT ![s] = "bye"]
          /\ toServer' = IF up[s] THEN [toServer EXCEPT ![s] = Append(@, "disconnect")] ELSE toServer
  /\ UNCHANGED <<procVars, srvVars, up, typed, cl, tm, closed, broken, mixed>>

(* Mistake: it does not close the connection.                                *)
ByeOpen(s) ==
  /\ rx[s] = "bye"
  /\ rx' = [rx EXCEPT ![s] = "done"]
  /\ StopClient(s, FALSE)
  /\ UNCHANGED <<procVars, srvVars, netVars, cl, tm, closed, broken, mixed>>

(* ... and closes two seconds later.                                         *)
Bye(s) ==
  /\ rx[s] = "bye"
  /\ rx' = [rx EXCEPT ![s] = "done"]
  /\ StopClient(s, FALSE)
  /\ up' = [up EXCEPT ![s] = FALSE]
  /\ UNCHANGED <<procVars, srvVars, toClient, toServer, typed, cl, tm, closed, broken, mixed>>

(* recvError.  (It counts the signals that were not sent, which only makes a *)
(* grace period shorter: here it may be over at any time.)                   *)
ReceiveSignalError(s) ==
  /\ Message(s, "ERROR", {"why"})
  /\ Again(s)
  /\ UNCHANGED <<procVars, srvVars, up, toServer, typed, cl, tm, last, closed, broken, mixed>>

(* run: it waits for the terminal, and copies until the pty stream is closed. *)
Attach(s) ==
  /\ tm[s] = "accept"
  /\ tm' = [tm EXCEPT ![s] = "copy"]
  /\ UNCHANGED <<procVars, srvVars, netVars, cl, rx, last, closed, broken, mixed>>

(* ... or it cannot accept it: the output is closed and the client stopped,  *)
(* with an error, but the connection is open, and receiveCommands still      *)
(* waits for a message, which may overwrite the error.                       *)
AcceptFails(s) ==
  /\ "accept" \in setup[s].may /\ tm[s] = "accept"
  /\ tm' = [tm EXCEPT ![s] = "done"]
  /\ broken' = [broken EXCEPT ![s] = TRUE]
  /\ StopClient(s, TRUE)
  /\ UNCHANGED <<procVars, srvVars, netVars, cl, rx, closed, mixed>>

CopyEnds(s) ==
  /\ tm[s] = "copy" /\ ~up[s]
  /\ tm' = [tm EXCEPT ![s] = "done"]
  /\ UNCHANGED <<procVars, srvVars, netVars, cl, rx, last, closed, broken, mixed>>

-----------------------------------------------------------------------------
(* What the program calls.                                                  *)

(* Client.Close from outside of the client (TerminalFailed).                *)
Close(s) ==
  /\ cl[s] = "up" /\ ~closed[s]
  /\ closed' = [closed EXCEPT ![s] = TRUE]
  /\ StopClient(s, FALSE)
  /\ up' = [up EXCEPT ![s] = FALSE]
  /\ UNCHANGED <<procVars, srvVars, toClient, toServer, typed, cl, rx, tm, broken, mixed>>

(* Server.Terminate (of a local server).                                     *)
Terminate(s) ==
  /\ terminating' = [terminating EXCEPT ![s] = TRUE]
  /\ esc' = IF registered[s] /\ esc[s] = "no" THEN [esc EXCEPT ![s] = "INT"] ELSE esc
  /\ UNCHANGED <<procVars, srv, registered, rc, out, inp, netVars, cliVars>>

(* The new messages to the server when the signal sig is sent to the         *)
(* processes of the sessions in to; and Ctrl+C.                              *)
SendSignals(to, sig) ==
  toServer' = [s \in Session |-> IF s \in to /\ up[s] THEN Append(toServer[s], sig) ELSE toServer[s]]

ServerStep(s) ==
  \/ ReceiveArgs(s) \/ Launch(s) \/ Register(s) \/ SendStart(s) \/ SendExit(s) \/ Wait(s) \/ Return(s)
  \/ Input(s) \/ Command(s) \/ Answer(s) \/ CommandError(s) \/ TerminateProcess(s)

ClientStep(s) ==
  \/ StartPty(s) \/ ReceiveError(s) \/ ReceiveState(s) \/ Bye(s)
  \/ ReceiveSignalError(s) \/ CopyEnds(s)

-----------------------------------------------------------------------------
(* What the tree sees of a session, for Process.                             *)
ViewOf(s) ==
  CASE cl[s] = "none"    -> "none"
    [] cl[s] = "dialing" -> "connecting"
    [] cl[s] = "refused" -> "refused"
    [] cl[s] = "up"      -> IF closed[s] THEN "closed"
                            ELSE IF broken[s] /\ last[s] = "err" THEN "unattached" ELSE last[s]

Promised == INSTANCE Process WITH view <- [s \in Session |-> ViewOf(s)], fate <- proc
=============================================================================
