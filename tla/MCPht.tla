--------------------------------- MODULE MCPht ---------------------------------
(***************************************************************************)
(* Instances of Pht for TLC.                                               *)
(***************************************************************************)
EXTENDS Pht

CONSTANTS k1, k2, k3, k4, b1, b2

Hashes == [k \in {k1, k2, k3, k4} |-> IF k \in {k1, k2, k3} THEN b1 ELSE b2]

Digits(n) == IF n < 10 THEN <<48 + n>> ELSE <<48 + n \div 10, 48 + (n % 10)>>

\* Two threads of two entries, three of one, one of three, none; numbers at and
\* past the largest one, leading zeros, letters; a product that overflows.
CommandLines ==
    {<<Digits(2), Digits(2)>>, <<Digits(3), Digits(1)>>, <<Digits(1), <<48, 51>>>>,
     <<Digits(2), <<>>>>, <<Digits(15), Digits(15)>>, <<Digits(16), Digits(1)>>,
     <<Digits(1), Digits(20)>>, <<<<48, 48, 49>>, Digits(1)>>, <<Digits(1), <<50, 120>>>>}
================================================================================
