------------------------------ MODULE MCBuilds ------------------------------
(***************************************************************************)
(* What surrounds a verification: the build of one job, the queue that     *)
(* hands jobs to builders, and the listings that page over the rows of the *)
(* services.  They share nothing, so a behaviour moves only the part       *)
(* chosen at the start.                                                    *)
(***************************************************************************)
EXTENDS BuildPipeline, BuildQueue, Listing

VARIABLE part

GoodJob == [signed |-> TRUE, source |-> "repo", https |-> TRUE, lock |-> {}, lockOk |-> TRUE, firstParty |-> FALSE]

\* A job with crates and a git dependency, a first-party one, and one for each
\* way a job is refused before its build.
MCJobs ==
  {[GoodJob EXCEPT !.lock = {"c1", "c2", "g1"}], [GoodJob EXCEPT !.firstParty = TRUE],
   [GoodJob EXCEPT !.lockOk = FALSE], [GoodJob EXCEPT !.https = FALSE],
   [GoodJob EXCEPT !.source = "upload"], [GoodJob EXCEPT !.signed = FALSE]}

Base == [code |-> 1, meta |-> 1, stamp |-> 1, layout |-> 1, parses |-> TRUE, metaParses |-> TRUE]
OtherCode == [Base EXCEPT !.code = 2, !.stamp = 2]

\* Wasms that differ in each respect the comparison tells apart.
MCWasms ==
  {Base, OtherCode, [Base EXCEPT !.stamp = 2], [Base EXCEPT !.meta = 2, !.stamp = 2], [Base EXCEPT !.layout = 2],
   [Base EXCEPT !.parses = FALSE, !.metaParses = FALSE], [Base EXCEPT !.stamp = 2, !.metaParses = FALSE]}
MCFirstParty == {OtherCode}

MCInit ==
  /\ part \in {"build", "queue", "list"}
  /\ PipelineInit /\ QueueInit /\ ListInit
  /\ part # "build" => deployed = Base
  /\ part # "queue" => backend = "memory"
  /\ part # "list"  => store = "memory"

MCNext ==
  /\ UNCHANGED part
  /\ \/ part = "build" /\ PipelineNext /\ UNCHANGED <<queueVars, listVars>>
     \/ part = "queue" /\ QueueNext /\ UNCHANGED <<pipelineVars, listVars>>
     \/ part = "list" /\ ListNext /\ UNCHANGED <<pipelineVars, queueVars>>

MCSpec == MCInit /\ [][MCNext]_<<part, pipelineVars, queueVars, listVars>>
=============================================================================
