------------------------------ MODULE MCSmokers ------------------------------
EXTENDS Smokers

\* No input; and "1aB" followed by a byte above 127: a character that is no
\* letter, two different letters, and an end before the end of the input.
MCInputs == {<<>>, <<49, 97, 66, 208>>}
=============================================================================
