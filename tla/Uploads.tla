------------------------------ MODULE Uploads ------------------------------
(***************************************************************************)
(* The upload of rtrunner to a host (internal/runner/upload.go): the       *)
(* starts of several nodes find at the same time that it is not there, one *)
(* of them uploads it, and the others wait for that one.                   *)
(***************************************************************************)
EXTENDS Naturals, Sequences, FiniteSets

CONSTANTS
  Dialer,      \* the starts of nodes with a managed ssh runner of the host
  MaxUploads   \* bound

VARIABLES
  at,       \* dialManaged of each: "dial", "ask", "wait", "upload", "close", "redial", "started", "failed"
  current,  \* uploads.m of the host and binary: an index of calls, 0 for none
  calls,    \* the uploadCalls: [done, err]
  mine,     \* the call that a start uploads for, or waits for
  onHost    \* rtrunner is on the host

uploadVars == <<at, current, calls, mine, onHost>>

UploadInit ==
  /\ at = [d \in Dialer |-> "dial"] /\ mine = [d \in Dialer |-> 0]
  /\ current = 0 /\ calls = <<>> /\ onHost = FALSE

Goes(d, where) == at' = [at EXCEPT ![d] = where]

(* A start: rtrunner runs, or it is not on the host, or ssh fails.           *)
DialHost(d) ==
  /\ \/ at[d] = "dial" /\ Goes(d, IF onHost THEN "started" ELSE "ask")
     \/ at[d] = "redial" /\ Goes(d, IF onHost THEN "started" ELSE "failed")
     \/ at[d] \in {"dial", "redial"} /\ Goes(d, "failed")
  /\ UNCHANGED <<current, calls, mine, onHost>>

(* uploadOnce, its first locked part.                                       *)
Ask(d) ==
  /\ at[d] = "ask"
  /\ IF current # 0
     THEN /\ mine' = [mine EXCEPT ![d] = current] /\ Goes(d, "wait")
          /\ UNCHANGED <<current, calls>>
     ELSE /\ Len(calls) < MaxUploads
          /\ calls' = Append(calls, [done |-> FALSE, err |-> FALSE])
          /\ current' = Len(calls') /\ mine' = [mine EXCEPT ![d] = Len(calls')]
          /\ Goes(d, "upload")
  /\ UNCHANGED onHost

(* Mistake in Upload: a failed call stays in the map.                        *)
UploadKeeps(d) ==
  /\ at[d] = "upload" /\ Goes(d, "close")
  /\ \/ onHost' = TRUE /\ UNCHANGED calls
     \/ calls' = [calls EXCEPT ![mine[d]].err = TRUE] /\ UNCHANGED onHost
  /\ UNCHANGED <<current, mine>>
(* The upload ends; a failed one is forgotten before its waiters go on.      *)
Upload(d) ==
  /\ at[d] = "upload" /\ Goes(d, "close")
  /\ \/ onHost' = TRUE /\ UNCHANGED <<calls, current>>
     \/ calls' = [calls EXCEPT ![mine[d]].err = TRUE] /\ current' = 0 /\ UNCHANGED onHost
  /\ UNCHANGED mine

(* done is closed.                                                          *)
CloseDone(d) ==
  /\ at[d] = "close" /\ calls' = [calls EXCEPT ![mine[d]].done = TRUE]
  /\ Goes(d, IF calls[mine[d]].err THEN "failed" ELSE "redial")
  /\ UNCHANGED <<current, mine, onHost>>

Wait(d) ==
  /\ at[d] = "wait" /\ calls[mine[d]].done
  /\ Goes(d, IF calls[mine[d]].err THEN "failed" ELSE "redial")
  /\ UNCHANGED <<current, calls, mine, onHost>>

(* The node is started again.                                               *)
Restart(d) ==
  /\ at[d] \in {"started", "failed"} /\ Goes(d, "dial")
  /\ UNCHANGED <<current, calls, mine, onHost>>

UploadNext == \E d \in Dialer : DialHost(d) \/ Ask(d) \/ Upload(d) \/ CloseDone(d) \/ Wait(d) \/ Restart(d)

UploadSpec == UploadInit /\ [][UploadNext]_uploadVars

(* There is one upload at a time; whoever waits, waits for a start that is   *)
(* uploading, or for a result that is there; the error of an upload is for   *)
(* those who waited for it: it is not in the map when they go on, so a later *)
(* start uploads again.                                                      *)
UploadsAreShared ==
  /\ \A d, e \in Dialer : at[d] = "upload" /\ at[e] = "upload" => d = e
  /\ \A d \in Dialer : at[d] = "wait" =>
       calls[mine[d]].done \/ \E e \in Dialer : at[e] \in {"upload", "close"} /\ mine[e] = mine[d]
  /\ current # 0 /\ calls[current].done => ~calls[current].err
=============================================================================
