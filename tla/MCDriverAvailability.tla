------------------------ MODULE MCDriverAvailability ------------------------
(* Constants of the driver-availability runs. *)
EXTENDS DriverAvailability, TLC

AllFaults == {"abort", "close", "crash"}
NoFaults  == {}
Aborts    == {"abort"}
Crashes   == {"crash"}

\* Requests and messages are interchangeable: no property names one of them.
Interchangeable == Permutations(Reqs) \cup Permutations(Msgs)
=============================================================================
