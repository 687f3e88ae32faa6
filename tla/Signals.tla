------------------------------- MODULE Signals -------------------------------
(***************************************************************************)
(* The signals of a module: an id is an index into Module::signals, and a  *)
(* signal with a depth is an array of that many elements.                  *)
(***************************************************************************)
EXTENDS Words

CONSTANTS
    Width,    \* Width[s]: bits of s, of one element when s is an array.
    Depth     \* Depth[s]: elements of the array s, 0 for a scalar.

(* The values a signal can hold: one wider than the word keeps a word.     *)
Fits(s) == 0 .. (2^Kept(Width[s]) - 1)

Elements(s) == 0 .. (Depth[s] - 1)

(* A target range: None, or the bits <<msb, lsb>> of the target.           *)
None == <<>>
=============================================================================
