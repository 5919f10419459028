----------------------------- MODULE MCAuroraLab -----------------------------
(* Small instances of AuroraLab for TLC. *)
EXTENDS AuroraLab

CONSTANTS s1, s2, clean, crash, disk

MCCreators == {s1, s2}
MCCrashers == {crash}
MCDisturbers == {disk}
MCClients == {s1, s2, clean, crash, disk}

Todo(n1, n2, nclean, ncrash, ndisk) ==
  [c \in MCClients |->
     CASE c = s1 -> n1 [] c = s2 -> n2 [] c = clean -> nclean
       [] c = crash -> ncrash [] c = disk -> ndisk]

(* Two stress Lambdas and the clean-up; two stress Lambdas, one of them    *)
(* twice; a stress Lambda and the clean-up under a crash; a stress Lambda  *)
(* and both fault Lambdas in warm processes across a rotation.             *)
MCScenarios ==
  { [todo |-> Todo(1, 1, 1, 0, 0), rotations |-> 0],
    [todo |-> Todo(2, 1, 0, 0, 0), rotations |-> 0],
    [todo |-> Todo(1, 0, 1, 1, 0), rotations |-> 0],
    [todo |-> Todo(1, 0, 0, 2, 2), rotations |-> 1] }
===============================================================================
