---------------------------- MODULE MCSignalBytes ----------------------------
(***************************************************************************)
(* An instance of SignalBytes for TLC: every mode, entry and code of the   *)
(* tables and the values next to them, and the frequencies at the bounds   *)
(* of the range, of a byte and of a word.                                  *)
(***************************************************************************)
EXTENDS SignalBytes

Freqs == {0, 299, 300, 511, 512, 6000, 6001, 65535}

AskedSettings ==
  [mode : 0 .. MODE_COUNT, freq : Freqs,
   bandwidth : {0, 10, 15, 20, 50, 100, 150, 200, 250, 300},
   power : {-12, -6, -1, 0}]

\* Modules as another program, or the factory, may have left them.
HeldPayloads ==
  {<<m, f \div 256, f % 256, b, p>> :
     m \in {0, 3, 4, 255}, f \in Freqs, b \in {0, 7, 8}, p \in {0, 2, 3}}

=============================================================================
