-------------------------- MODULE MCCommandQueue --------------------------
(* Small instances of CommandQueue for TLC. *)
EXTENDS CommandQueue

\* Files longer than the buffer, with lines of every kind.
MCInputs == { <<"op", "op", "skip", "op", "op">>,
              <<"op", "wrong", "op", "op">>,
              <<"op", "op", "bad">>,
              << >> }
=============================================================================
