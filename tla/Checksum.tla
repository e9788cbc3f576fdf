------------------------------ MODULE Checksum ------------------------------
(***************************************************************************)
(* Damm36 (crates/domain/src/damm.rs): the check character of a duck code, *)
(* and what it promises of a code that is typed in wrong.  A printed code  *)
(* and somebody's copy of it are read side by side, character by           *)
(* character, each through its own interim digit; the copy has at most one *)
(* error.  Nothing is bounded: the states are all pairs of interim digits  *)
(* that two codes of any length can reach, over the full alphabet.         *)
(***************************************************************************)
EXTENDS Naturals

Digits == 0..35                     \* base 36

VARIABLES
  printed,                          \* interim digit of the printed code so far
  copied,                           \* interim digit of the copy so far
  error                             \* what went wrong in the copy so far

vars == <<printed, copied, error>>

Errors == {"none", "substitution", "transposition"}

-----------------------------------------------------------------------------

\* Fault: the matrix of the Z2 part swaps its components and does not add.
sigmaSwap(d) ==
  LET x == d \div 6
      y == d % 6
      nx == (3 * (y % 2) + 4 * ((2 * (x % 3)) % 3)) % 6
      ny == (3 * (x % 2) + 4 * ((2 * (y % 3)) % 3)) % 6
  IN 6 * nx + ny

\* The orthomorphism of Z6 x Z6, on d = 6x + y.
sigma(d) ==
  LET x == d \div 6
      y == d % 6
      nx == (3 * (y % 2) + 4 * ((2 * (x % 3)) % 3)) % 6
      ny == (3 * ((x + y) % 2) + 4 * ((2 * (y % 3)) % 3)) % 6
  IN 6 * nx + ny

\* TABLE[x][y] is sigma(x) + y in Z6 x Z6.
TABLE ==
  [x \in Digits |-> [y \in Digits |->
     6 * (((sigma(x) \div 6) + (y \div 6)) % 6) + (((sigma(x) % 6) + (y % 6)) % 6)]]

\* One step of the fold in interim.
interim(i, d) == TABLE[i][d]

\* Fault: 0 is looked up in the column instead of the row.
check_digitColumn(i) == CHOOSE c \in Digits : TABLE[c][i] = 0

\* The position of the first 0 in the row of the interim digit.
check_digit(i) ==
  CHOOSE c \in Digits : TABLE[i][c] = 0 /\ \A b \in 0..(c - 1) : TABLE[i][b] # 0

validate(i) == i = 0

-----------------------------------------------------------------------------

Init == printed = 0 /\ copied = 0 /\ error = "none"

\* A character copied as it stands.
Copy(d) ==
  /\ printed' = interim(printed, d)
  /\ copied' = interim(copied, d)
  /\ UNCHANGED error

\* Another character in its place.
Substitute(d, e) ==
  /\ error = "none" /\ d # e
  /\ printed' = interim(printed, d)
  /\ copied' = interim(copied, e)
  /\ error' = "substitution"

\* Two neighbours swapped.
Transpose(d, e) ==
  /\ error = "none" /\ d # e
  /\ printed' = interim(interim(printed, d), e)
  /\ copied' = interim(interim(copied, e), d)
  /\ error' = "transposition"

Next ==
  \/ \E d \in Digits : Copy(d)
  \/ \E d, e \in Digits : Substitute(d, e) \/ Transpose(d, e)

Spec == Init /\ [][Next]_vars

-----------------------------------------------------------------------------

\* DuckCode::parse never accepts a code with one wrong character, or with two
\* neighbours swapped, wherever in the code it happens: what was printed and
\* what was typed cannot both pass the check.
OneErrorCaught == error # "none" => ~(validate(printed) /\ validate(copied))

\* assemble appends the one character that makes a code valid: parse accepts
\* what was printed and, of the 36 codes with the same body, no other.
CheckDigitUnique ==
  \A d \in Digits : validate(interim(printed, d)) <=> d = check_digit(printed)

\* Why one error is caught: the interim digits part at the error and no
\* character copied after it brings them together again.
ChecksumInv ==
  /\ printed \in Digits /\ copied \in Digits /\ error \in Errors
  /\ error = "none" <=> printed = copied
=============================================================================
