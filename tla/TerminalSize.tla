---------------------------- MODULE TerminalSize ----------------------------
(***************************************************************************)
(* The size of the pty of a process, and of the terminal area of the GUI   *)
(* (internal/gtkui/nodeterminal.go): a timer of the main loop sees that    *)
(* the area has changed, and goroutines send the size.                     *)
(***************************************************************************)
EXTENDS Naturals

CONSTANTS
  WinSize,     \* the sizes of the area
  Sender,      \* the goroutines of sendSize, bounds how many there are at a time
  MaxResizes   \* bound

(* A size is none of the places of a sender.                                 *)
ASSUME SizeAssumption == WinSize \cap {"none", "lock"} = {}

VARIABLES
  area,     \* the size of the terminal area
  size,     \* nt.size: the last size that was seen
  wanted,   \* nt.wanted
  sent,     \* nt.sent
  remote,   \* the size of the pty of the process
  alive,    \* the process
  sender,   \* the goroutines: "none", "lock", or the size that one sends
  broken,   \* a send failed
  resizes

sizeVars == <<area, size, wanted, sent, remote, alive, sender, broken, resizes>>

(* createTerminal: the terminal has the size that the pty was started with.  *)
SizeInit ==
  /\ area \in WinSize /\ size \in WinSize /\ wanted = size /\ sent = size /\ remote = size
  /\ alive = TRUE /\ sender = [g \in Sender |-> "none"] /\ broken = FALSE /\ resizes = 0

Resize ==
  /\ resizes < MaxResizes /\ resizes' = resizes + 1
  /\ \E s \in WinSize \ {area} : area' = s
  /\ UNCHANGED <<size, wanted, sent, remote, alive, sender, broken>>

(* checkTerminalSize, the timer.                                             *)
CheckTerminalSize(g) ==
  /\ size # area /\ alive /\ sender[g] = "none"
  /\ size' = area /\ wanted' = area /\ sender' = [sender EXCEPT ![g] = "lock"]
  /\ UNCHANGED <<area, sent, remote, alive, broken, resizes>>

(* Mistake in ReadWanted: the senders are not serialized.                    *)
ReadWantedAtOnce(g) ==
  /\ sender[g] = "lock"
  /\ sender' = [sender EXCEPT ![g] = IF wanted = sent \/ ~alive THEN "none" ELSE wanted]
  /\ UNCHANGED <<area, size, wanted, sent, remote, alive, broken, resizes>>
(* One sender at a time reads the size that is wanted by then.               *)
ReadWanted(g) ==
  /\ sender[g] = "lock" /\ \A h \in Sender : sender[h] \in {"none", "lock"}
  /\ sender' = [sender EXCEPT ![g] = IF wanted = sent \/ ~alive THEN "none" ELSE wanted]
  /\ UNCHANGED <<area, size, wanted, sent, remote, alive, broken, resizes>>

SendSize(g) ==
  /\ sender[g] \in WinSize /\ sender' = [sender EXCEPT ![g] = "none"]
  /\ \/ /\ sent' = sender[g] /\ remote' = IF alive THEN sender[g] ELSE remote
        /\ UNCHANGED broken
     \/ broken' = TRUE /\ UNCHANGED <<sent, remote>>
  /\ UNCHANGED <<area, size, wanted, alive, resizes>>

ProcessExits == alive /\ alive' = FALSE /\ UNCHANGED <<area, size, wanted, sent, remote, sender, broken, resizes>>

SizeNext ==
  \/ Resize \/ ProcessExits
  \/ \E g \in Sender : CheckTerminalSize(g) \/ ReadWanted(g) \/ SendSize(g)

SizeSpec == SizeInit /\ [][SizeNext]_sizeVars

(* When the timer has seen the area and every sender is done, the process    *)
(* has the size of the area, however fast the size changed and whatever      *)
(* order the senders ran in (unless a send failed).                          *)
SizeIsCurrent ==
  size = area /\ alive /\ ~broken /\ (\A g \in Sender : sender[g] = "none") => remote = area
=============================================================================
