------------------------------- MODULE MCRover -------------------------------
(* Model values for Rover: a slice per motor, and README.md's messages. *)
EXTENDS Rover

P(c, v) == [c |-> c, v |-> v]

\* Drive slice: forward at two speeds, and back.
DriveMessages == { <<P("G", 30)>>, <<P("G", 120)>>, <<P("B", 30)>> }

\* Steering slice: as README.md builds them, a drive pair first if there is one.
SteerMessages == { <<P("T", 160)>>, <<P("N", 0)>>,
                   <<P("G", 30), P("T", 50)>>, <<P("G", 30), P("N", 0)>> }

Drive == [commands |-> {"G", "B"}, messages |-> DriveMessages]
Steer == [commands |-> {"T", "N"}, messages |-> SteerMessages]
Both == {Drive, Steer}
OnlyDrive == {Drive}
OnlySteer == {Steer}

Blank == {P("C", 0)}

=============================================================================
