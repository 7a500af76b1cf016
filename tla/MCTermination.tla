--------------------------- MODULE MCTermination ---------------------------
(* Instances of Termination: one node, of every kind of runner, started once *)
(* or twice; what may happen besides is chosen at the start.                 *)
EXTENDS Termination

CONSTANT a

Twice == {<<a, 1>>, <<a, 2>>}

(* One start, or a second one after it ("overlap": or while its session ends). *)
On(r, n, t, m) ==
  [s \in Twice |-> [runner |-> r, noTerm |-> n, terminal |-> t, may |-> IF s[2] = 1 THEN m ELSE {}]]
Rerun(f, m) == [f EXCEPT ![a, 2].may = {"rerun"} \cup m]

Scenarios ==
  {Rerun(On("local", FALSE, FALSE, {"timeout"}), {}),
   Rerun(On("ssh", FALSE, FALSE, {"exit"}), {"overlap", "refused"}),
   On("tcp", TRUE, FALSE, {"timeout"}),
   On("local", FALSE, TRUE, {"terminal", "accept"}),
   On("local", FALSE, FALSE, {"exit"}),
   On("tcp", FALSE, FALSE, {"loss", "rest"})}

(* For what does not hold: a signal that a runner cannot send, a terminal    *)
(* that fails or cannot be accepted, a second start between the two looks of *)
(* TerminateRemote, and a command that leaves processes behind.              *)
WithoutSigterm == {On("tcp", TRUE, FALSE, {"timeout"})}
LateTerminal   == {On("local", FALSE, TRUE, {"terminal", "accept"})}
RerunAtExit    == {Rerun(On("ssh", FALSE, FALSE, {"exit"}), {"overlap"})}
RestOverSsh    == {On("ssh", FALSE, FALSE, {"exit", "rest"})}
=============================================================================
