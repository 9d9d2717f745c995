--------------------------- MODULE CarrierProcess ---------------------------
(***************************************************************************)
(* One child process and the runner that waits for it.  Three runners      *)
(* share the shape: StrictProcessRunner (src/process/strict-runner.ts) for *)
(* oracles and judges, SandboxedCommandRunner (packages/weave, here on     *)
(* Linux) for Candidates, and DshRunCarrier (src/carrier/dsh-run.ts, and   *)
(* ProductionAuthorForwardRunner alike) for model Episodes.                *)
(*                                                                         *)
(* A run ends with the child's `close` event: the child has exited and     *)
(* nobody holds the write end of its pipes.  Time is not counted: a timer  *)
(* that is armed may fire at any moment and does so eventually.            *)
(***************************************************************************)
EXTENDS Naturals, Sequences

CONSTANTS
  MaxOutput,   (* The output limit, in units.                              *)
  MaxSent      (* Bound: the chunks that the child writes on a stream.     *)

ASSUME CarrierAssumption == MaxOutput \in Nat \ {0} /\ MaxSent \in Nat

VARIABLES
  kind,     (* Which runner it is.                                         *)
  manner,   (* What the child does on SIGTERM: it dies, shuts down and     *)
            (* exits with 0, or ignores it.                                *)
  child,    (* The child: how it ended, signals that wait for it, whether  *)
            (* its Session is flushed, whether a helper of it holds the    *)
            (* pipes.                                                      *)
  sent,     (* The units it has written on each stream, and in how many    *)
            (* chunks.                                                     *)
  pipe,     (* The chunks not yet read from each pipe.                     *)
  runner    (* The runner: what it captured, its flags and its timers.     *)

cvars == <<kind, manner, child, sent, pipe, runner>>

Kinds == {"strict", "sandbox", "dsh"}
Streams == {"out", "err"}
ChunkSizes == 1..2

Alive == child.exit = "none"
Running == runner.phase = "running"

(***************************************************************************)
(* A helper that outlives the child keeps `close` from coming.             *)
(***************************************************************************)
Held == ~Alive /\ child.helper

CarrierInit ==
  /\ kind \in Kinds
  /\ manner \in {"dies", "shuts", "ignores"}
  /\ child = [exit |-> "none", term |-> FALSE, kill |-> FALSE, flushed |-> FALSE,
              helper |-> FALSE]
  /\ sent = [s \in Streams |-> [units |-> 0, chunks |-> 0]]
  /\ pipe = [s \in Streams |-> <<>>]
  /\ runner = [phase |-> "running", got |-> [s \in Streams |-> 0], bytes |-> 0,
               limit |-> FALSE, timedOut |-> FALSE, deadline |-> "armed",
               kill |-> "off", grace |-> "off", scratch |-> kind = "sandbox"]

-----------------------------------------------------------------------------
(***************************************************************************)
(* The child.  The headless DSH writes stdout, and exits with 0 by itself, *)
(* only after its Session is flushed (the comment at dsh-run.ts:89).       *)
(***************************************************************************)
ExitsAs(code) ==
  child' = [child EXCEPT !.exit = code, !.helper = @ /\ kind # "sandbox"]

ChildWrites(s, n) ==
  /\ Alive /\ sent[s].chunks < MaxSent
  /\ kind = "dsh" /\ s = "out" => child.flushed
  /\ sent' = [sent EXCEPT ![s] = [units |-> @.units + n, chunks |-> @.chunks + 1]]
  /\ pipe' = [pipe EXCEPT ![s] = Append(@, n)]
  /\ UNCHANGED <<kind, manner, child, runner>>

ChildFlushes ==
  /\ Alive /\ kind = "dsh" /\ ~child.flushed
  /\ child' = [child EXCEPT !.flushed = TRUE]
  /\ UNCHANGED <<kind, manner, sent, pipe, runner>>

ChildStartsHelper ==
  /\ Alive /\ ~child.helper
  /\ child' = [child EXCEPT !.helper = TRUE]
  /\ UNCHANGED <<kind, manner, sent, pipe, runner>>

HelperLeaves ==
  /\ child.helper
  /\ child' = [child EXCEPT !.helper = FALSE]
  /\ UNCHANGED <<kind, manner, sent, pipe, runner>>

ChildExits(code) ==
  /\ Alive
  /\ kind = "dsh" /\ code = "zero" => child.flushed
  /\ ExitsAs(code)
  /\ UNCHANGED <<kind, manner, sent, pipe, runner>>

ChildTakesTerm ==
  /\ Alive /\ child.term /\ manner # "ignores"
  /\ ExitsAs(IF manner = "shuts" THEN "zero" ELSE "signal")
  /\ UNCHANGED <<kind, manner, sent, pipe, runner>>

ChildTakesKill ==
  /\ Alive /\ child.kill
  /\ ExitsAs("signal")
  /\ UNCHANGED <<kind, manner, sent, pipe, runner>>

(***************************************************************************)
(* The runner.                                                             *)
(***************************************************************************)
Term == child' = [child EXCEPT !.term = @ \/ Alive]

Arm(timer) == IF timer = "off" THEN "armed" ELSE timer

(* A chunk on stderr re-arms the grace as well. *)
BadRetainArmsOnAny(s, n) ==
  LET room == MaxOutput - runner.bytes
      kept == IF n < room THEN n ELSE room
      over == runner.limit \/ n > room
  IN /\ runner' = [runner EXCEPT
          !.got[s] = @ + kept, !.bytes = @ + kept, !.limit = over,
          !.kill = IF over /\ ~runner.limit THEN Arm(@) ELSE @,
          !.grace = IF ~over THEN "armed" ELSE @]
     /\ IF over /\ ~runner.limit THEN Term ELSE UNCHANGED child

(* DSH: what still fits is kept, what follows stdout re-arms the grace.    *)
RetainChunk(s, n) ==
  LET room == MaxOutput - runner.bytes
      kept == IF n < room THEN n ELSE room
      over == runner.limit \/ n > room
  IN /\ runner' = [runner EXCEPT
          !.got[s] = @ + kept, !.bytes = @ + kept, !.limit = over,
          !.kill = IF over /\ ~runner.limit THEN Arm(@) ELSE @,
          !.grace = IF s = "out" /\ ~over THEN "armed" ELSE @]
     /\ IF over /\ ~runner.limit THEN Term ELSE UNCHANGED child

(* The other two: the chunk that passes the limit, and all after it, go.   *)
CountChunk(s, n) ==
  LET over == runner.bytes + n > MaxOutput
  IN IF runner.limit THEN UNCHANGED <<runner, child>>
     ELSE /\ runner' = [runner EXCEPT !.bytes = @ + n, !.limit = over,
                                      !.got[s] = IF over THEN @ ELSE @ + n]
          /\ IF over THEN Term ELSE UNCHANGED child

Receive(s) ==
  /\ Running /\ pipe[s] # <<>>
  /\ pipe' = [pipe EXCEPT ![s] = Tail(@)]
  /\ IF kind = "dsh" THEN RetainChunk(s, Head(pipe[s])) ELSE CountChunk(s, Head(pipe[s]))
  /\ UNCHANGED <<kind, manner, sent>>

(* A deadline that sends SIGTERM and arms no SIGKILL after it. *)
BadDeadlineNoKill ==
  /\ Running /\ runner.deadline = "armed"
  /\ runner' = [runner EXCEPT !.deadline = "fired", !.timedOut = TRUE]
  /\ Term
  /\ UNCHANGED <<kind, manner, sent, pipe>>

DeadlineFires ==
  /\ Running /\ runner.deadline = "armed"
  /\ runner' = [runner EXCEPT !.deadline = "fired", !.timedOut = TRUE, !.kill = Arm(@)]
  /\ Term
  /\ UNCHANGED <<kind, manner, sent, pipe>>

(* terminate() by the timer that the last chunk on stdout has armed.       *)
GraceFires ==
  /\ Running /\ runner.grace = "armed"
  /\ runner' = [runner EXCEPT !.grace = "off", !.kill = Arm(@)]
  /\ Term
  /\ UNCHANGED <<kind, manner, sent, pipe>>

KillFires ==
  /\ Running /\ runner.kill = "armed"
  /\ runner' = [runner EXCEPT !.kill = "fired"]
  /\ child' = [child EXCEPT !.kill = Alive]
  /\ UNCHANGED <<kind, manner, sent, pipe>>

(* The `close` event: timers are cleared, the scratch root is removed and  *)
(* the result is returned.                                                 *)
Close ==
  /\ Running /\ ~Alive /\ ~child.helper
  /\ \A s \in Streams : pipe[s] = <<>>
  /\ runner' = [runner EXCEPT !.phase = "settled", !.scratch = FALSE]
  /\ UNCHANGED <<kind, manner, child, sent, pipe>>

(* The `error` event of a child that could not be started.                 *)
SpawnFails ==
  /\ Running /\ Alive /\ ~child.helper
  /\ runner.deadline = "armed"
  /\ \A s \in Streams : sent[s].chunks = 0
  /\ ~child.flushed
  /\ runner' = [runner EXCEPT !.phase = "failed", !.scratch = FALSE]
  /\ ExitsAs("unborn")
  /\ UNCHANGED <<kind, manner, sent, pipe>>

-----------------------------------------------------------------------------
(***************************************************************************)
(* What the operating system and the event loop owe: signals are           *)
(* delivered, chunks read, timers fire, the close event comes.             *)
(***************************************************************************)
Owed ==
  \/ ChildTakesTerm \/ ChildTakesKill
  \/ \E s \in Streams : Receive(s)
  \/ DeadlineFires \/ KillFires \/ Close

CarrierNext ==
  \/ Owed
  \/ GraceFires
  \/ SpawnFails
  \/ ChildFlushes
  \/ ChildStartsHelper
  \/ HelperLeaves
  \/ \E s \in Streams, n \in ChunkSizes : ChildWrites(s, n)
  \/ \E code \in {"zero", "nonzero"} : ChildExits(code)

CarrierFairness ==
  /\ WF_cvars(ChildTakesTerm)
  /\ WF_cvars(ChildTakesKill)
  /\ WF_cvars(\E s \in Streams : Receive(s))
  /\ WF_cvars(DeadlineFires)
  /\ WF_cvars(KillFires)
  /\ WF_cvars(Close)

CarrierSpec == CarrierInit /\ [][CarrierNext]_cvars /\ CarrierFairness

-----------------------------------------------------------------------------
(***************************************************************************)
(* What evaluations call healthy (exit code 0, no signal, not timed out,   *)
(* within the output limit) was not cut short: all that the child wrote    *)
(* was captured, the Session of a DSH child is on disk, and no other child *)
(* was told to stop.  A runner that closes finished DSH processes by       *)
(* SIGTERM must never do so to one that is still at work, because a        *)
(* graceful shutdown also exits with 0.                                    *)
(***************************************************************************)
Healthy ==
  /\ runner.phase = "settled" /\ child.exit = "zero"
  /\ ~runner.timedOut /\ ~runner.limit
HealthyIsWhole ==
  Healthy =>
    /\ \A s \in Streams : runner.got[s] = sent[s].units
    /\ IF kind = "dsh" THEN child.flushed ELSE ~child.term

(***************************************************************************)
(* Every run ends, whatever the child does with SIGTERM, unless a helper   *)
(* that has outlived the child holds its pipes for ever: SIGKILL reaches   *)
(* the child alone, and only the Linux sandbox takes its helpers along.    *)
(***************************************************************************)
RunnerSettles == <>(~Running) \/ (kind # "sandbox" /\ <>[]Held)
=============================================================================
