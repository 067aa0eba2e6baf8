------------------------- MODULE MCFlightEmergency -------------------------
(* Instance of FlightEmergency for TLC.                                    *)
EXTENDS FlightEmergency, TLC

SignalSymmetry == Permutations(Signals)
=============================================================================
