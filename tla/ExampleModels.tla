----------------------------- MODULE ExampleModels -----------------------------
(***************************************************************************)
(* The two generated programs kept in codegen/example, as the model texts  *)
(* whose blocks they contain: mm1, one server with an unlimited queue, and *)
(* pm, a production line with three stations, inspection and rework.       *)
(* Exponential times are drawn from Times and a comparison with a uniform  *)
(* draw may come out either way, so the rates they use are left out.  A    *)
(* job is scrapped after ReworkLimit rounds of rework, 3 in the program.   *)
(***************************************************************************)
EXTENDS ModelDsl

CONSTANTS Times,        \* what rng.Exponential may return
          ReworkLimit   \* rounds of rework before a job is scrapped

Drawn == [of |-> AnyEntity, draws |-> Times]

Block(type, name, lines) == [type |-> type, name |-> name, lines |-> lines]

\* A queue of unlimited capacity in front of a server of capacity one.
Station(queue, delay, next) ==
    << Block("QUEUE", queue, << <<"next", delay>>, <<"capacity", Infinity>> >>),
       Block("DELAY", delay, << <<"next", next>>, <<"duration", Drawn>>, <<"capacity", {1}>>,
                                <<"wait_queue", queue>> >>) >>

\* Arrivals one by one; a job that cannot enter the model is destroyed.
Source(entity, next) ==
    << Block("CREATE", "Source", << <<"entity", entity>>, <<"interval", Times>>,
                                    <<"blocking_policy", "destroy">>, <<"next", next>> >>) >>

Sink(name) == << Block("TERMINATE", name, <<>>) >>

ServiceStation == Station("WaitQueue", "ServiceDelay", "Sink")

mm1 == [entities |-> [Order |-> <<>>], vars |-> <<>>, resources |-> <<>>,
        blocks |-> Source("Order", "WaitQueue") \o ServiceStation \o Sink("Sink")]

------------------------------------------------------------------------------

Chance == [test |-> "chance", entity |-> AnyEntity, name |-> "", n |-> 0]
FieldIs(name, n) == [test |-> "equal", entity |-> "Jobs", name |-> name, n |-> n]
FieldAtMost(name, n) == [test |-> "atMost", entity |-> "Jobs", name |-> name, n |-> n]

Literal(n) == [of |-> AnyEntity, draws |-> {n}]
SetJobType(n) == [entity |-> "Jobs", name |-> "JobType", op |-> "const", expr |-> Literal(n)]
CountUp(entity, name) == [entity |-> entity, name |-> name, op |-> "add", expr |-> Literal(1)]

Arrivals ==
    Source("Jobs", "BranchJobType") \o
    << Block("BRANCH", "BranchJobType",
             << <<"if", [cond |-> Chance, next |-> "AssignJobTypeOne"]>>,
                <<"else", "AssignJobTypeTwo">> >>),
       Block("ASSIGN", "AssignJobTypeOne", << <<"set", SetJobType(1)>>, <<"next", "BranchByType">> >>),
       Block("ASSIGN", "AssignJobTypeTwo", << <<"set", SetJobType(2)>>, <<"next", "BranchByType">> >>),
       Block("BRANCH", "BranchByType",
             << <<"if", [cond |-> FieldIs("JobType", 1), next |-> "QueueA"]>>,
                <<"if", [cond |-> FieldIs("JobType", 2), next |-> "QueueB"]>> >>) >>

StationA == Station("QueueA", "DelayA", "QueueQC")
StationB == Station("QueueB", "DelayB", "QueueQC")
StationQC == Station("QueueQC", "DelayQC", "QCResult")

Inspection ==
    << Block("BRANCH", "QCResult",
             << <<"if", [cond |-> Chance, next |-> "SinkSuccessCount"]>>, <<"else", "ReworkCountUp">> >>),
       Block("ASSIGN", "SinkSuccessCount",
             << <<"set", CountUp(AnyEntity, "totalEntitiesSink")>>, <<"next", "SinkSuccess">> >>) >>
    \o Sink("SinkSuccess")

Rework ==
    << Block("ASSIGN", "ReworkCountUp",
             << <<"set", CountUp("Jobs", "ReworkCount")>>, <<"next", "ReworkDecision">> >>),
       Block("BRANCH", "ReworkDecision",
             << <<"if", [cond |-> FieldAtMost("ReworkCount", ReworkLimit), next |-> "BranchByType"]>>,
                <<"else", "SinkScrapCount">> >>),
       Block("ASSIGN", "SinkScrapCount",
             << <<"set", CountUp(AnyEntity, "totalEntitiesSink")>>, <<"next", "SinkScrap">> >>) >>
    \o Sink("SinkScrap")

pm == [entities |-> [Jobs |-> [JobType |-> 0, ReworkCount |-> 0]],
       vars |-> [totalEntitiesSink |-> 0], resources |-> <<>>,
       blocks |-> Arrivals \o StationA \o StationB \o StationQC \o Inspection \o Rework]
================================================================================
