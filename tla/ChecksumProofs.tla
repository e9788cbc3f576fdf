--------------------------- MODULE ChecksumProofs ---------------------------
(***************************************************************************)
(* What the Damm table promises, from the formula it is built by.  The     *)
(* argument is the algebra the code relies on: the table is a row of       *)
(* Z6 x Z6 shifted by sigma, sigma is a bijection, and so is the map from  *)
(* x to sigma(x) - x (an orthomorphism).  The first makes a substitution   *)
(* show, the second a transposition.                                       *)
(***************************************************************************)
EXTENDS Checksum, TLAPS

\* Addition in Z6 x Z6, on digits 6x + y.
Add(d, e) == 6 * (((d \div 6) + (e \div 6)) % 6) + (((d % 6) + (e % 6)) % 6)

\* sigma gives digits.
LEMMA SigmaDigit == \A d \in Digits : sigma(d) \in Digits
  BY DEF Digits, sigma

\* sigma takes no two digits to the same one.
LEMMA SigmaInjective ==
  ASSUME NEW d \in Digits, NEW e \in Digits, sigma(d) = sigma(e)
  PROVE  d = e
  BY SMTT(60) DEF Digits, sigma

\* Sums are digits.
LEMMA AddDigit == \A d, e \in Digits : Add(d, e) \in Digits
  BY DEF Digits, Add

\* Addition cancels on either side.
LEMMA AddCancels ==
  ASSUME NEW i \in Digits, NEW d \in Digits, NEW e \in Digits
  PROVE  /\ Add(i, d) = Add(i, e) => d = e
         /\ Add(d, i) = Add(e, i) => d = e
  BY SMTT(60) DEF Digits, Add

\* The order of two summands does not matter.
LEMMA AddSwaps ==
  ASSUME NEW i \in Digits, NEW d \in Digits, NEW e \in Digits
  PROVE  Add(Add(i, d), e) = Add(Add(i, e), d)
  BY SMTT(60) DEF Digits, Add

\* A row of the table is the digits shifted by sigma.
LEMMA InterimAdds ==
  ASSUME NEW i \in Digits, NEW d \in Digits
  PROVE  interim(i, d) = Add(sigma(i), d) /\ interim(i, d) \in Digits
  BY SigmaDigit, AddDigit DEF interim, TABLE, Add

\* The components of sigma(d) modulo 2 and 3, which determine them modulo 6.
LEMMA SigmaParts ==
  ASSUME NEW d \in Digits
  PROVE  LET x == d \div 6
             y == d % 6
             s == sigma(d)
         IN /\ (s \div 6) % 2 = y % 2 /\ (s \div 6) % 3 = (2 * x) % 3
            /\ (s % 6) % 2 = (x + y) % 2 /\ (s % 6) % 3 = (2 * y) % 3
  BY DEF Digits, sigma

\* Equal sums have equal components.
LEMMA EqualSums ==
  ASSUME NEW a \in Digits, NEW b \in Digits, NEW d \in Digits, NEW e \in Digits,
         Add(a, e) = Add(b, d)
  PROVE  /\ ((a \div 6) + (e \div 6)) % 6 = ((b \div 6) + (d \div 6)) % 6
         /\ ((a % 6) + (e % 6)) % 6 = ((b % 6) + (d % 6)) % 6
  BY DEF Digits, Add

\* sigma(x) - x takes no value twice: if a and b differ by as much as sigma(a)
\* and sigma(b) do, they do not differ.
LEMMA Orthomorphism ==
  ASSUME NEW a \in Digits, NEW b \in Digits, NEW d \in Digits, NEW e \in Digits,
         Add(a, e) = Add(b, d), Add(sigma(a), e) = Add(sigma(b), d)
  PROVE  d = e
<1> DEFINE x(n) == n \div 6
           y(n) == n % 6
           sa == sigma(a)
           sb == sigma(b)
<1>1. \A n \in Digits : x(n) \in 0..5 /\ y(n) \in 0..5 /\ n = 6 * x(n) + y(n)
  BY DEF Digits
<1>2. sa \in Digits /\ sb \in Digits
  BY SigmaDigit
<1>3. /\ (x(a) + x(e)) % 6 = (x(b) + x(d)) % 6
      /\ (y(a) + y(e)) % 6 = (y(b) + y(d)) % 6
  BY EqualSums
<1>4. /\ (x(sa) + x(e)) % 6 = (x(sb) + x(d)) % 6
      /\ (y(sa) + y(e)) % 6 = (y(sb) + y(d)) % 6
  BY <1>2, EqualSums
<1>5. /\ x(sa) % 2 = y(a) % 2 /\ x(sa) % 3 = (2 * x(a)) % 3
      /\ y(sa) % 2 = (x(a) + y(a)) % 2 /\ y(sa) % 3 = (2 * y(a)) % 3
  BY SigmaParts
<1>6. /\ x(sb) % 2 = y(b) % 2 /\ x(sb) % 3 = (2 * x(b)) % 3
      /\ y(sb) % 2 = (x(b) + y(b)) % 2 /\ y(sb) % 3 = (2 * y(b)) % 3
  BY SigmaParts
<1>7. \A n \in {a, b, d, e, sa, sb} : x(n) \in 0..5 /\ y(n) \in 0..5
  BY <1>1, <1>2
<1> HIDE DEF x, y, sa, sb
<1>8. x(d) % 3 = x(e) % 3
  BY <1>3, <1>4, <1>5, <1>6, <1>7
<1>9. y(d) % 3 = y(e) % 3
  BY <1>3, <1>4, <1>5, <1>6, <1>7
<1>10. x(d) % 2 = x(e) % 2 /\ y(d) % 2 = y(e) % 2
  BY <1>3, <1>4, <1>5, <1>6, <1>7
<1>11. x(d) = x(e) /\ y(d) = y(e)
  BY <1>7, <1>8, <1>9, <1>10
<1> QED BY <1>1, <1>11

\* Two interim digits that differ still differ after the same character.
LEMMA CopyKeepsApart ==
  ASSUME NEW i \in Digits, NEW j \in Digits, NEW d \in Digits, i # j
  PROVE  interim(i, d) # interim(j, d)
  BY SigmaDigit, SigmaInjective, InterimAdds, AddCancels

\* After the same interim digit, different characters give different ones.
LEMMA SubstitutionShows ==
  ASSUME NEW i \in Digits, NEW d \in Digits, NEW e \in Digits, d # e
  PROVE  interim(i, d) # interim(i, e)
  BY SigmaDigit, InterimAdds, AddCancels

\* So do two different characters in either order.
LEMMA TranspositionShows ==
  ASSUME NEW i \in Digits, NEW d \in Digits, NEW e \in Digits, d # e
  PROVE  interim(interim(i, d), e) # interim(interim(i, e), d)
<1> DEFINE a == interim(i, d)
           b == interim(i, e)
<1>1. /\ a \in Digits /\ a = Add(sigma(i), d)
      /\ b \in Digits /\ b = Add(sigma(i), e)
  BY InterimAdds
<1>2. Add(a, e) = Add(b, d)
  BY <1>1, AddSwaps, SigmaDigit
<1>3. interim(a, e) = Add(sigma(a), e) /\ interim(b, d) = Add(sigma(b), d)
  BY <1>1, InterimAdds
<1> QED BY <1>1, <1>2, <1>3, Orthomorphism

\* Reading on, with or without an error, keeps the two readings as they should be.
LEMMA ChecksumStep ==
  ASSUME ChecksumInv, [Next]_vars
  PROVE  ChecksumInv'
<1>1. ASSUME NEW d \in Digits, Copy(d)
      PROVE  ChecksumInv'
  BY <1>1, InterimAdds, CopyKeepsApart DEF Copy, ChecksumInv
<1>2. ASSUME NEW d \in Digits, NEW e \in Digits, Substitute(d, e)
      PROVE  ChecksumInv'
  BY <1>2, InterimAdds, SubstitutionShows DEF Substitute, ChecksumInv, Errors
<1>3. ASSUME NEW d \in Digits, NEW e \in Digits, Transpose(d, e)
      PROVE  ChecksumInv'
  BY <1>3, InterimAdds, TranspositionShows DEF Transpose, ChecksumInv, Errors
<1>4. CASE UNCHANGED vars
  BY <1>4 DEF vars, ChecksumInv
<1> QED BY <1>1, <1>2, <1>3, <1>4 DEF Next

\* Printed code and copy have the same interim digit exactly as long as the copy
\* has no error.
THEOREM ChecksumInvariant == Spec => []ChecksumInv
<1>1. Init => ChecksumInv
  BY DEF Init, ChecksumInv, Digits, Errors
<1> QED BY <1>1, ChecksumStep, PTL DEF Spec

\* DuckCode::parse catches every single substitution and every transposition of
\* neighbours, in codes of any length.
THEOREM OneErrorIsCaught == Spec => []OneErrorCaught
<1>1. ChecksumInv => OneErrorCaught
  BY DEF ChecksumInv, OneErrorCaught, validate
<1> QED BY <1>1, ChecksumInvariant, PTL

\* Every digit has a negative, so the search of check_digit ends.
LEMMA CheckDigitExists ==
  ASSUME NEW i \in Digits
  PROVE  \E c \in Digits : Add(i, c) = 0
<1> DEFINE c == 6 * ((6 - (i \div 6)) % 6) + ((6 - (i % 6)) % 6)
<1>1. c \in Digits /\ Add(i, c) = 0
  BY DEF Digits, Add
<1> QED BY <1>1

\* check_digit is the position of a 0 in the row.
LEMMA CheckDigitValidates ==
  ASSUME NEW i \in Digits
  PROVE  check_digit(i) \in Digits /\ interim(i, check_digit(i)) = 0
<1>1. PICK c \in Digits : interim(i, c) = 0
  BY CheckDigitExists, SigmaDigit, InterimAdds
<1>2. \A b \in 0..(c - 1) : b \in Digits /\ b # c
  BY DEF Digits
<1>3. \A b \in 0..(c - 1) : TABLE[i][b] # 0
  BY <1>1, <1>2, SubstitutionShows DEF interim
<1> QED BY <1>1, <1>3 DEF check_digit, interim

\* The character that assemble appends is the one, of all 36, that makes a body
\* of any length pass the check.
THEOREM CheckDigitIsUnique == Spec => []CheckDigitUnique
<1>1. ASSUME ChecksumInv
      PROVE  CheckDigitUnique
  BY <1>1, CheckDigitValidates, SubstitutionShows DEF ChecksumInv, CheckDigitUnique, validate
<1> QED BY <1>1, ChecksumInvariant, PTL
=============================================================================
