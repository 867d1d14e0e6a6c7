-------------------------------- MODULE MCPwm --------------------------------
(* Pwm with a period of 12 steps, refreshed every 3 as 20 ms is every 5 ms. *)
EXTENDS Pwm

=============================================================================
