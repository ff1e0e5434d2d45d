---- MODULE MCWeatherRing ----
(***************************************************************************)
(* Three slots, so that the ring is passed several times before the clock  *)
(* stops, with outages longer than the interval and torn commits.          *)
(***************************************************************************)
EXTENDS WeatherRing
====
