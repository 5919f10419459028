---------------------------- MODULE MCValkeyPhases ----------------------------
(* Small environments of ValkeyPhases for TLC. *)
EXTENDS ValkeyPhases

Cpu(fn, durations, phaseOf, duty) ==
  [fn |-> fn, durations |-> durations, phaseOf |-> phaseOf, duty |-> duty,
   pipeline |-> 1, interval |-> 1]
Mixed(durations, phaseOf, pipeline, interval) ==
  [fn |-> "mixed", durations |-> durations, phaseOf |-> phaseOf,
   duty |-> <<>>, pipeline |-> pipeline, interval |-> interval]

(* Two flat threads; phases of one and of two threads, below full duty and *)
(* at it; two mixed phases, two threads in one, and a longer one.          *)
MCEnvironments ==
  { Cpu("flat", <<2>>, <<1, 1>>, <<FALSE>>),
    Cpu("phased", <<2, 1>>, <<1, 2>>, <<TRUE, TRUE>>),
    Cpu("phased", <<1, 1>>, <<1, 2, 2>>, <<TRUE, FALSE>>),
    Mixed(<<1, 1>>, <<1, 2>>, 1, 1),
    Mixed(<<2>>, <<1, 1>>, 2, 2),
    Mixed(<<3>>, <<1>>, 2, 1) }
===============================================================================
