--------------------------------- MODULE MCSsp ---------------------------------
(***************************************************************************)
(* Instances of Ssp for TLC.                                               *)
(***************************************************************************)
EXTENDS Ssp

NoHabits == {{}}

\* As the tests pass them, through pipes, and over each other.
SomeStreams == {<<0, 1, 2>>, <<0, 3, 2>>, <<3, 0, 2>>, <<0, 2, 1>>, <<3, 3, 3>>, <<1, 1, 0>>}
================================================================================
