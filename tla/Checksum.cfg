\* Every pair of codes of any length that differ by one typing error.
SPECIFICATION Spec
INVARIANTS OneErrorCaught CheckDigitUnique
