------------------------------- MODULE MCGps -------------------------------
(***************************************************************************)
(* Finite instances of GpsLink for TLC.                                    *)
(***************************************************************************)
EXTENDS GpsLink

\* Two rates to try, and one more that no search finds.
SearchOrder == <<"9600", "38400">>
Starts == {"9600", "115200", "4800"}
Sentences == <<"GGA", "GLL", "RMC">>
=============================================================================
