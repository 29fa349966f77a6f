--------------------------- MODULE MCCityVouchers ---------------------------
(* Instances of CityVouchers for TLC.                                      *)
EXTENDS CityVouchers

CONSTANTS v1, r1, r2, w1, w2
=============================================================================
