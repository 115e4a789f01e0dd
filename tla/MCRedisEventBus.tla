--------------------------- MODULE MCRedisEventBus ---------------------------
(***************************************************************************)
(* RedisEventBus for TLC: the constants are given in bus.cfg (two          *)
(* consumers, faults and a crash).                                         *)
(***************************************************************************)
EXTENDS RedisEventBus
=============================================================================
