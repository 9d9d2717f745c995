------------------------------ MODULE MCEpisodes ------------------------------
(* What an Episode rests on: the artifact store, the runners of processes    *)
(* and the Episode itself.  They share no state, so that a behaviour         *)
(* exercises one of them and leaves the others as they start.                *)
EXTENDS ArtifactStore, CarrierProcess, Episode

CONSTANTS c1, c2, c3, r1, r2, b1, b2

VARIABLE active

allvars == <<active, vars, cvars, evars>>

EpisodesInit ==
  /\ active \in {"store", "carrier", "episode"}
  /\ Init /\ CarrierInit /\ EpisodeInit
  /\ active # "store" => job = CHOOSE j \in [Calls -> Pointer] : TRUE
  /\ active # "carrier" => kind = "strict" /\ manner = "dies"
  /\ active # "episode" => arm = "control" /\ oddity = "none"
EpisodesNext ==
  \/ active = "store" /\ Next /\ UNCHANGED <<active, cvars, evars>>
  \/ active = "carrier" /\ CarrierNext /\ UNCHANGED <<active, vars, evars>>
  \/ active = "episode" /\ EpisodeNext /\ UNCHANGED <<active, vars, cvars>>

(* FairSpec of ArtifactStore and CarrierFairness, where they are active.     *)
EpisodesFairness ==
  /\ \A c \in Calls : WF_allvars(active = "store" /\ Progress(c) /\ UNCHANGED <<active, cvars, evars>>)
  /\ WF_allvars(active = "carrier" /\ ChildTakesTerm /\ UNCHANGED <<active, vars, evars>>)
  /\ WF_allvars(active = "carrier" /\ ChildTakesKill /\ UNCHANGED <<active, vars, evars>>)
  /\ WF_allvars(active = "carrier" /\ (\E s \in Streams : Receive(s))
                  /\ UNCHANGED <<active, vars, evars>>)
  /\ WF_allvars(active = "carrier" /\ DeadlineFires /\ UNCHANGED <<active, vars, evars>>)
  /\ WF_allvars(active = "carrier" /\ KillFires /\ UNCHANGED <<active, vars, evars>>)
  /\ WF_allvars(active = "carrier" /\ Close /\ UNCHANGED <<active, vars, evars>>)

EpisodesSpec == EpisodesInit /\ [][EpisodesNext]_allvars /\ EpisodesFairness

(* RunnerSettles, of the behaviours in which the runner runs: every run of a *)
(* process ends unless a helper holds its pipes for ever.                    *)
RunnersSettle == active = "carrier" => RunnerSettles
===============================================================================
