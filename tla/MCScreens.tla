------------------------------ MODULE MCScreens ------------------------------
(* Months of two and one days, and of two and two in the leap year.        *)
EXTENDS Screens

MCDaysIn == << <<2, 1>>, <<2, 2>> >>

AddressSymmetry == Permutations(Addresses)

=============================================================================
