------------------------------- MODULE WriteOnce -------------------------------
(***************************************************************************)
(* What an artifact store promises its callers: one register for each      *)
(* artifact, which is set once, in one indivisible step and to the         *)
(* complete bytes of one of the writes.  A write returns a pointer when    *)
(* the register holds its bytes, whoever set it, and is refused otherwise; *)
(* a read through a pointer that was returned succeeds.  Temporary files,  *)
(* links, inspections and crashes (ArtifactStore) are invisible here.      *)
(***************************************************************************)
CONSTANTS Calls, Refs, Bytes, Absent

VARIABLES
  job,       (* What each call is about: a ref and bytes.                  *)
  content,   (* The registers.                                             *)
  outcome,   (* How each call ended, "pending" before it does.             *)
  pointers   (* The pointers that writes have returned.                    *)

registerVars == <<job, content, outcome, pointers>>

Held(c) == content[job[c].ref]

Init ==
  /\ job \in [Calls -> [ref : Refs, bytes : Bytes]]
  /\ content = [r \in Refs |-> Absent]
  /\ outcome = [c \in Calls |-> "pending"]
  /\ pointers = {}

Set(c) ==
  /\ outcome[c] = "pending" /\ Held(c) = Absent
  /\ content' = [content EXCEPT ![job[c].ref] = job[c].bytes]
  /\ UNCHANGED <<job, outcome, pointers>>

End(c, how) ==
  /\ outcome[c] = "pending"
  /\ outcome' = [outcome EXCEPT ![c] = how]
  /\ UNCHANGED <<job, content>>

ReturnPointer(c) ==
  /\ Held(c) = job[c].bytes
  /\ End(c, "written")
  /\ pointers' = pointers \cup {job[c]}

Refuse(c) == End(c, "refused") /\ UNCHANGED pointers

Read(c) ==
  /\ Held(c) = job[c].bytes
  /\ End(c, "read") /\ UNCHANGED pointers

(***************************************************************************)
(* A read finds bytes that are not those of its pointer, or cannot tell;   *)
(* it never does through a pointer that was returned.                      *)
(***************************************************************************)
FindOthers(c) ==
  /\ Held(c) \notin {Absent, job[c].bytes}
  /\ End(c, "mismatch") /\ UNCHANGED pointers

FindNothing(c) ==
  /\ job[c] \notin pointers
  /\ End(c, "unreadable") /\ UNCHANGED pointers

Next ==
  \E c \in Calls :
    Set(c) \/ ReturnPointer(c) \/ Refuse(c) \/ Read(c) \/ FindOthers(c) \/ FindNothing(c)

Spec == Init /\ [][Next]_registerVars
===============================================================================
