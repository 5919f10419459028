----------------------------- MODULE MCAuroraStages -----------------------------
(* Small settings of AuroraStages for TLC. *)
EXTENDS AuroraStages

Connections(durations, targets, batch) ==
  [fn |-> "connections", durations |-> durations, targets |-> targets,
   batch |-> batch, idle |-> targets, arrays |-> 0,
   legacy |-> <<>>, full |-> <<>>, fraction |-> <<>>, extra |-> <<>>]
Memory(durations, targets, idles, arrays) ==
  [Connections(durations, targets, 0) EXCEPT
     !.fn = "memory", !.idle = idles, !.arrays = arrays]
Cpu(durations, legacy, full, fraction, extra) ==
  [Connections(durations, <<>>, 0) EXCEPT !.fn = "cpu",
     !.legacy = legacy, !.full = full, !.fraction = fraction, !.extra = extra]

(* Connections that grow, and that shrink in between; memory sessions that *)
(* all start at once, and that start with the second phase, and whose      *)
(* arrays can be built, and cannot; every kind of CPU thread in one phase, *)
(* and two phases.                                                         *)
MCSettings ==
  { Connections(<<1, 1>>, <<1, 2>>, 2),
    Connections(<<1, 1, 1>>, <<1, 0, 1>>, 2),
    Memory(<<1, 1>>, <<1, 1>>, <<1, 2>>, 0),
    Memory(<<1, 1>>, <<0, 1>>, <<0, 2>>, 1),
    Cpu(<<1>>, <<1>>, <<0>>, <<1>>, <<1>>),
    Cpu(<<1, 1>>, <<1, 0>>, <<0, 1>>, <<0, 0>>, <<0, 1>>) }
===============================================================================
