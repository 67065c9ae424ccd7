------------------------------ MODULE RadioWords ------------------------------
(***************************************************************************)
(* How FSUIPCWrapper.cpp turns what a simulator holds of a radio into the   *)
(* frequency the plugin looks up, in kHz.  Radios with 25 kHz spacing are   *)
(* read as a word of four BCD digits, 118.025 as 16#1802; radios with       *)
(* 8.33 kHz spacing as a number of Hz.                                      *)
(***************************************************************************)
EXTENDS Integers

Unset == -1     \* 0xFFFFFFFF, in a cache that is not in use
Junk  == -2     \* what an uninitialised cache held, neither a frequency nor Unset

\* The simulator's side: the words it holds for a frequency.
Digit(n, place) == (n \div place) % 10

FourDigits(a, b, c, d) == 4096 * a + 256 * b + 16 * c + d

BcdWord(khz) ==
    LET n == (khz - 100000) \div 10
    IN  FourDigits(Digit(n, 1000), Digit(n, 100), Digit(n, 10), Digit(n, 1))

HzWord(khz) == khz * 1000

-----------------------------------------------------------------------------
Nibble(word, place) == (word \div place) % 16

InTens(word) ==
    100000 + 10000 * Nibble(word, 4096) + 1000 * Nibble(word, 256)
      + 100 * Nibble(word, 16) + 10 * Nibble(word, 1)

\* Slip: the fifth digit stays lost.
NoFifthDigit(khz) == khz

\* The fifth digit of the raster is a 5 when the fourth is a 2 or a 7.
FifthDigit(khz) == IF khz % 50 = 20 THEN khz + 5 ELSE khz

\* A word that is no frequency is none afterwards either.
Khz25(word) == IF word < 0 THEN word ELSE FifthDigit(InTens(word))

\* (int)(0.001 * hz)
Khz833(hz) == IF hz < 0 THEN hz ELSE hz \div 1000
=============================================================================
