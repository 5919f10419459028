---------------------------- MODULE MCMemoryStress ----------------------------
(* Small instances of MemoryStress for TLC: a value has two bytes, and the *)
(* memory has room for a few.                                              *)
EXTENDS MemoryStress

OneShard == {0, 1, 900, 901, 910, 911}
SomeShard == {0, 901}

(* Two phases of two workers that ramp the memory to four and to eight     *)
(* bytes, one key in each pipeline.                                        *)
Ramp == [flat |-> FALSE, targets |-> <<4, 8>>, workers |-> <<2, 2>>,
         keys_per_worker |-> 0, pipeline |-> 1, value |-> 2, cost |-> 2, before |-> 0,
         leftover |-> {}, cleanup |-> TRUE, near |-> OneShard, plain |-> FALSE,
         expiry |-> FALSE]

(* Other data in memory, pipelines of two. *)
RampBatched == [Ramp EXCEPT !.targets = <<6, 8>>, !.workers = <<1, 2>>,
                            !.pipeline = 2, !.before = 2]

(* The second phase adds one key: what the workers write is there already. *)
RampOver == [Ramp EXCEPT !.targets = <<4, 6>>]

(* A key costs more than its value: the first phase passes its target.     *)
Overhead == [Ramp EXCEPT !.targets = <<4, 9>>, !.workers = <<1, 1>>, !.cost = 3]

(* No value fits into the gap that the workers leave: the top-up passes    *)
(* the target.                                                             *)
SmallGap == [Ramp EXCEPT !.targets = <<3, 7>>, !.workers = <<1, 2>>]

(* Keys of an earlier invocation, also under the id of a top-up. *)
LeftByWorker == [Ramp EXCEPT !.targets = <<7>>, !.workers = <<2>>, !.leftover = {<<0, 0>>}]
LeftByFill == [LeftByWorker EXCEPT !.leftover = {<<0, 0>>, <<900, 0>>}]

(* Two nodes, one phase; and the same through a plain client. *)
Sharded == [Ramp EXCEPT !.targets = <<4>>, !.workers = <<2>>, !.near = SomeShard]
Plain == [Sharded EXCEPT !.plain = TRUE]

(* Keys expire while one worker and the top-ups of one phase write. *)
Expiring == [Ramp EXCEPT !.targets = <<4>>, !.workers = <<1>>, !.expiry = TRUE]

(* Two workers of two keys each, into a memory that has room for three. *)
Flat == [Ramp EXCEPT !.flat = TRUE, !.targets = << >>, !.workers = <<2>>,
                     !.keys_per_worker = 2, !.before = 2]
KeptKeys == [Flat EXCEPT !.cleanup = FALSE, !.before = 0]

All == {Ramp, RampBatched, RampOver, Overhead, SmallGap, LeftByWorker, LeftByFill,
        Sharded, Plain, Expiring, Flat, KeptKeys}
Short == {RampOver}

===============================================================================
