----------------------------- MODULE MCSimulation -----------------------------
(* The model texts the simulation is checked with: the two examples, five   *)
(* more for resources, timeouts, overflows, refusals and stops, and two the *)
(* front end rejects.                                                       *)
EXTENDS Simulation

Examples == INSTANCE ExampleModels WITH Times <- {1, 2}, ReworkLimit <- 1

Line(type, name, lines) == [type |-> type, name |-> name, lines |-> lines]
Takes(times) == [of |-> AnyEntity, draws |-> times]
Sink(name) == Line("TERMINATE", name, <<>>)

\* Two parts at a time for one machine: the second waits in a queue of one,
\* gives up after a while, and a third is turned away.
workshop ==
    [entities |-> [Part |-> <<>>], vars |-> <<>>,
     resources |-> << [name |-> "Machine", lines |-> << <<"capacity", 1>>, <<"seize", "Take">> >>] >>,
     blocks |-> <<
        Line("CREATE", "Arrive", << <<"entity", "Part">>, <<"interval", {1, 2}>>, <<"batch", {2}>>,
             <<"immediately", TRUE>>, <<"next", "Buffer">> >>),
        Line("QUEUE", "Buffer", << <<"capacity", {1}>>, <<"timeout", Takes({1, 3})>>,
             <<"next_timeout", "Lost">>, <<"exit_on_overflow", TRUE>>, <<"next_overflow", "Turned">>,
             <<"next", "Take">> >>),
        Line("SEIZE", "Take", << <<"resource", "Machine">>, <<"wait_queue", "Buffer">>, <<"next", "Work">> >>),
        Line("DELAY", "Work", << <<"duration", Takes({0, 1, 3})>>, <<"next", "Give">> >>),
        Line("RELEASE", "Give", << <<"resource", "Machine">>, <<"next", "Done">> >>),
        Sink("Done"), Sink("Lost"), Sink("Turned") >>]

\* Two kinds of vehicle, each with its own queue and SEIZE, for one dock.
Bay(kind, queue, seize, delay, release, times) ==
    << Line("CREATE", kind, << <<"entity", "V" \o kind>>, <<"interval", {2}>>, <<"next", queue>> >>),
       Line("QUEUE", queue, << <<"capacity", Infinity>>, <<"next", seize>> >>),
       Line("SEIZE", seize, << <<"resource", "Dock">>, <<"wait_queue", queue>>, <<"next", delay>> >>),
       Line("DELAY", delay, << <<"duration", [of |-> "V" \o kind, draws |-> times]>>, <<"next", release>> >>),
       Line("RELEASE", release, << <<"resource", "Dock">>, <<"next", "Done">> >>) >>

docks(listed) ==
    [entities |-> [VCar |-> <<>>, VTruck |-> <<>>], vars |-> <<>>,
     resources |-> << [name |-> "Dock", lines |-> << <<"capacity", 1>> >> \o listed] >>,
     blocks |-> Bay("Car", "Cars", "TakeCar", "ServeCar", "GiveCar", {1, 2})
                \o Bay("Truck", "Trucks", "TakeTruck", "ServeTruck", "GiveTruck", {1, 3})
                \o << Sink("Done") >>]

\* Nowhere to wait: whoever finds the desk taken, or no seat left, is sent away.
walkin ==
    [entities |-> [Guest |-> <<>>], vars |-> [seen |-> 0],
     resources |-> << [name |-> "Seat", lines |-> << <<"capacity", 2>>, <<"seize", "Sit">> >>] >>,
     blocks |-> <<
        Line("CREATE", "Door", << <<"entity", "Guest">>, <<"interval", {1}>>,
             <<"blocking_policy", "destroy">>, <<"next", "Count">> >>),
        Line("ASSIGN", "Count", << <<"set", [entity |-> AnyEntity, name |-> "seen", op |-> "add", expr |-> Takes({1})]>>,
             <<"next", "Sit">> >>),
        Line("SEIZE", "Sit", << <<"resource", "Seat">>, <<"next", "Desk">> >>),
        Line("DELAY", "Desk", << <<"duration", Takes({1, 2, 3})>>, <<"capacity", {1, 2}>>, <<"next", "Leave">> >>),
        Line("RELEASE", "Leave", << <<"resource", "Seat">>, <<"next", "Done">> >>),
        Sink("Done") >>]

\* As walkin without the seats, but a guest that is refused stops the run.
strict ==
    [entities |-> [Guest |-> <<>>], vars |-> <<>>, resources |-> <<>>,
     blocks |-> <<
        Line("CREATE", "Door", << <<"entity", "Guest">>, <<"interval", {1, 4}>>, <<"batch", {1, 2}>>,
             <<"next", "Desk">> >>),
        Line("DELAY", "Desk", << <<"duration", Takes({1, 2})>>, <<"capacity", {1, 2}>>, <<"next", "Done">> >>),
        Sink("Done") >>]

\* Texts that are accepted and whose runs stop: a delay ends in front of a full
\* queue, a truck that has been weighed meets an expression that reads cars, a
\* car gives back what nobody took.
Weight(kind, times) ==
    [entity |-> AnyEntity, name |-> "load", op |-> "const", expr |-> [of |-> kind, draws |-> times]]
IsA(kind) == [test |-> "is", entity |-> kind, name |-> "", n |-> 0]

tandem ==
    [entities |-> [VCar |-> <<>>, VTruck |-> <<>>], vars |-> [load |-> 0],
     resources |-> << [name |-> "Dock", lines |-> << <<"capacity", 1>>, <<"seize", "Take">> >>] >>,
     blocks |-> <<
        Line("CREATE", "Car", << <<"entity", "VCar">>, <<"interval", {1}>>, <<"next", "Wash">> >>),
        Line("CREATE", "Truck", << <<"entity", "VTruck">>, <<"interval", {4}>>, <<"next", "Gate">> >>),
        Line("BRANCH", "Gate", << <<"if", [cond |-> IsA("VCar"), next |-> "Wash"]>>,
                                  <<"if", [cond |-> IsA("VTruck"), next |-> "Weigh"]>> >>),
        Line("ASSIGN", "Weigh", << <<"set", Weight("VTruck", {2, 3})>>, <<"set", Weight("VCar", {1})>>,
                                   <<"next", "Wash">> >>),
        Line("DELAY", "Wash", << <<"duration", [of |-> "VCar", draws |-> {1, 2}]>>, <<"next", "Yard">> >>),
        Line("QUEUE", "Yard", << <<"capacity", {0, 2}>>, <<"next", "Dry">> >>),
        Line("DELAY", "Dry", << <<"duration", Takes({1, 3})>>, <<"capacity", {1}>>, <<"wait_queue", "Yard">>,
             <<"next", "Give">> >>),
        Line("RELEASE", "Give", << <<"resource", "Dock">>, <<"next", "Done">> >>),
        Line("SEIZE", "Take", << <<"resource", "Dock">>, <<"next", "Wash">> >>),
        Sink("Done") >>]

\* A capacity given twice.
twice == [strict EXCEPT !.blocks[2].lines = Append(@, <<"capacity", {2}>>)]

Programs ==
    [mm1 |-> Examples!mm1, pm |-> Examples!pm, workshop |-> workshop,
     docks |-> docks(<< <<"seize", "TakeCar">>, <<"seize", "TakeTruck">> >>),
     unlisted |-> docks(<< <<"seize", "TakeCar">> >>),
     walkin |-> walkin, strict |-> strict, tandem |-> tandem, twice |-> twice]
===============================================================================
