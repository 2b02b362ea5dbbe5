------------------------------ MODULE MCStations ------------------------------
(* A model-checking instance of Stations, with PcSessions. *)
EXTENDS Stations, TLC

CONSTANT old

StationSymmetry ==
  Permutations(Devices) \union Permutations(Agents) \union Permutations(Clients)
  \union Permutations(Requests \ Legacy)
=============================================================================
