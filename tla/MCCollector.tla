---------------------------- MODULE MCCollector -----------------------------
(* A TLC instance of Collector: two interfaces whose counters are about to  *)
(* wrap, CPU times whose sum wraps at the second tick, and a receive buffer *)
(* of two bytes that answers of two bytes outgrow.                  *)
EXTENDS Collector

CONSTANTS a, b, eth, wlan

MCBytes  == {NUL, a, b}
MCChunks == {<<a>>, <<b, NUL>>}
MCCpu0   == [busy |-> 1, idle |-> 1]
=============================================================================
