------------------------------ MODULE MCListing ------------------------------
EXTENDS Listing

MCAsked == {None, 0, 2, 5}
=============================================================================
